---------------------------- MODULE Spec2Model ----------------------------
(***************************************************************************)
(* A model of the controller process of src/main.py: the websocket hubs    *)
(* (/audio and /live/{rid}), the receiver registry fed by the chat bot's   *)
(* on_message handler, and the HTTP command endpoints.                     *)
(*                                                                         *)
(* The process runs on one asyncio event loop: a handler runs without      *)
(* interruption from one await to the next, so every action below is the   *)
(* code between two awaits of one handler.                                 *)
(***************************************************************************)
EXTENDS Integers, Sequences, FiniteSets, TLC

(***************************************************************************)
(* Bounds of the model.                                                    *)
(***************************************************************************)
MaxFrames == 2
MaxAudioMsgs == 2
\* the clock advances at most MaxTicks times
MaxTicks == 2
\* a chat message has at most MaxTokens words, each run of blanks at most MaxPad + 1 long
MaxTokens == 4
MaxPad == 1
\* the log channel delivers at most MaxLogs messages
MaxLogs == 2
\* people and bots write at most MaxDms messages to the bot or next to it
MaxDms == 2
\* a person writes at most MaxOver direct messages more than the DM list holds
MaxOver == 2
\* receivers post at most MaxShots messages in the target channel
MaxShots == 2

LiveConns == {"w1", "w2", "w3"}
LiveRids == {"r1", "r2"}
Roles == {"sender", "viewer"}
AudioConns == {"a1", "a2", "a3"}
\* b"" is a falsy bytes object, any other payload is truthy
Payloads == {"", "jpg"}

VARIABLES
    \* ---- /live/{rid} ----
    live_hubs,    \* _live_hubs: rid -> LiveHub (viewers, lock, latest)
    lconn,        \* per live connection: where its live_ws coroutine is
    lbc,          \* per live connection: the locals of its LiveHub.broadcast call
    lrecv,        \* per live connection: the frames written to its socket, in order
    ljoin,        \* per live connection: lsubmitted and lentered of its rid when it was added
    lsubmitted,   \* rid -> number of frames senders have submitted so far
    lentered,     \* rid -> number of broadcasts that have entered their locked section
    llog,         \* the broadcasts that have completed
    \* ---- /audio ----
    hub,          \* hub: Hub (clients, lock)
    aconn,        \* per audio connection: where its audio_ws coroutine is
    abc,          \* per audio connection: the locals of its Hub.broadcast_bytes call
    arecv,        \* per audio connection: the messages written to its socket
    asubmitted,   \* number of messages received from audio clients so far
    alog,         \* the broadcasts that have completed
    \* ---- receiver registry ----
    receivers,    \* _receivers: id -> {"alias", "last_seen", "tag", "mode"}
    selected,     \* _selected_receiver
    state_file,   \* receivers.json (STATE_FILE)
    disk_ok,      \* whether STATE_FILE.write_text succeeds
    clock,        \* time.time()
    ticks,        \* how often the clock has advanced
    inbox,        \* the gateway event on_message is about to be called with
    resp,         \* what the handler that ran last returned: the body of the
                  \* response of /api/receivers, or whether on_message took its
                  \* message for an announcement and whether it raised
    \* ---- command endpoints ----
    controller,   \* _controller_ready and _controller_error
    req,          \* per HTTP request: where its handler is, and its locals
    sent,         \* the messages ch.send has posted in the command channel
    \* ---- what the bot keeps of the chat ----
    dm_messages,       \* _dm_messages
    latest_dm_user,    \* _latest_dm_user
    latest_keylog,     \* _latest_keylog
    screenshot_log,    \* _screenshot_log
    latest_screenshot, \* _latest_screenshot
    reading,           \* the on_message handlers suspended in att.read()
    delivered          \* how many direct, log and target messages the gateway has delivered

liveVars == <<live_hubs, lconn, lbc, lrecv, ljoin, lsubmitted, lentered, llog>>
audioVars == <<hub, aconn, abc, arecv, asubmitted, alog>>
regVars == <<receivers, selected, state_file, disk_ok, clock, ticks, inbox, resp>>
cmdVars == <<controller, req, sent>>
mediaVars == <<dm_messages, latest_dm_user, latest_keylog, screenshot_log,
               latest_screenshot, reading, delivered>>
vars == <<liveVars, audioVars, regVars, cmdVars, mediaVars>>
nonLiveVars == <<audioVars, regVars, cmdVars, mediaVars>>
nonAudioVars == <<liveVars, regVars, cmdVars, mediaVars>>
nonRegVars == <<liveVars, audioVars, cmdVars, mediaVars>>
outsideVars == <<liveVars, audioVars, mediaVars>>

Range(s) == {s[i] : i \in 1..Len(s)}

(***************************************************************************)
(* asyncio.Lock, as the hubs use it in "async with self.lock".  acquire()  *)
(* returns at once when the lock is free and nobody waits; otherwise the   *)
(* caller queues, and release() wakes the queue's head.                    *)
(***************************************************************************)
LockIgnored(h) == TRUE
LockFree(h) == ~h.locked /\ h.waiters = <<>>

LockGranted(h, c) == ~h.locked /\ h.waiters # <<>> /\ Head(h.waiters) = c

Enqueue(h, c) == [h EXCEPT !.waiters = Append(@, c)]

\* the woken waiter leaves the queue
Dequeue(h, c) == IF h.waiters # <<>> /\ Head(h.waiters) = c
                 THEN [h EXCEPT !.waiters = Tail(@)] ELSE h

(***************************************************************************)
(* LiveHub                                                                 *)
(***************************************************************************)
NoFrame == [seq |-> 0, data |-> "None"]

NewLiveHub == [viewers |-> {}, locked |-> FALSE, waiters |-> <<>>, latest |-> NoFrame]

\* bool(hub.latest): None and b"" are falsy
Truthy(f) == f # NoFrame /\ f.data # ""

NoBroadcast == [data |-> NoFrame, todo |-> {}, dead |-> {}, attempted |-> {}, entry |-> {}]

IdleConn == [pc |-> "idle", role |-> "none", rid |-> "none", closed |-> FALSE]

\* _live_hubs.setdefault(rid, LiveHub())
SetDefaultHub(hubs, rid) ==
    IF rid \in DOMAIN hubs THEN hubs
    ELSE [r \in DOMAIN hubs \cup {rid} |-> IF r = rid THEN NewLiveHub ELSE hubs[r]]

\* hubs[rid] = h
PutHub(hubs, rid, h) ==
    [r \in DOMAIN hubs \cup {rid} |-> IF r = rid THEN h ELSE hubs[r]]

\* ws.send_bytes(data): raises on a socket the client has closed
SendRaises(conns, ws) == conns[ws].closed

DeliveredAhead(conns, recv, ws, f) ==
    IF SendRaises(conns, ws) THEN recv ELSE [recv EXCEPT ![ws] = <<f>> \o @]
Delivered(conns, recv, ws, f) ==
    IF SendRaises(conns, ws) THEN recv ELSE [recv EXCEPT ![ws] = Append(@, f)]

\* list(self.viewers)
ViewerSnapshot(h) == h.viewers

\* the sockets the loop still has to visit after send_bytes(ws) returned or
\* raised: "except Exception: dead.append(ws)" keeps the loop going
RestAbortOnRaise(todo, ws, raised) == IF raised THEN {} ELSE todo \ {ws}
Rest(todo, ws, raised) == todo \ {ws}

\* self.latest = data
SetLatestOnce(h, f) == IF h.latest = NoFrame THEN [h EXCEPT !.latest = f] ELSE h
SetLatest(h, f) == [h EXCEPT !.latest = f]

(***************************************************************************)
(* One iteration of the fan-out loop of LiveHub.broadcast, run by sender c *)
(* holding the lock of hub h with locals b: either the next send_bytes is  *)
(* called (and the coroutine awaits it), or the loop is over, the dead     *)
(* sockets are discarded and the lock is released.                         *)
(***************************************************************************)
LiveFanOut(c, rid, h, b) ==
    IF b.todo # {}
    THEN \E ws \in b.todo :
            /\ lrecv' = Delivered(lconn, lrecv, ws, b.data)
            /\ lbc' = [lbc EXCEPT ![c] =
                         [b EXCEPT !.todo = Rest(@, ws, SendRaises(lconn, ws)),
                                   !.attempted = @ \cup {ws},
                                   !.dead = IF SendRaises(lconn, ws) THEN @ \cup {ws} ELSE @]]
            /\ live_hubs' = PutHub(live_hubs, rid, [h EXCEPT !.locked = TRUE])
            /\ lconn' = [lconn EXCEPT ![c].pc = "s_send"]
            /\ llog' = llog
    ELSE /\ live_hubs' = PutHub(live_hubs, rid,
                                 [h EXCEPT !.viewers = @ \ b.dead, !.locked = FALSE])
         /\ llog' = llog \cup {[frame |-> b.data, rid |-> rid, entry |-> b.entry,
                                attempted |-> b.attempted, raised |-> b.dead]}
         /\ lbc' = [lbc EXCEPT ![c] = NoBroadcast]
         /\ lconn' = [lconn EXCEPT ![c].pc = "s_recv"]
         /\ lrecv' = lrecv

\* "async with self.lock:" entered by sender c, then the first iteration
LiveBroadcastEnter(c, rid, h, data) ==
    LiveFanOut(c, rid, h, [data |-> data, todo |-> ViewerSnapshot(h), dead |-> {},
                           attempted |-> {}, entry |-> h.viewers])

\* live_ws, role == "sender": ws.accept(), the hub looked up or created
LiveConnectSender(c, rid) ==
    /\ lconn[c].pc = "idle"
    /\ live_hubs' = SetDefaultHub(live_hubs, rid)
    /\ lconn' = [lconn EXCEPT ![c] = [pc |-> "s_recv", role |-> "sender", rid |-> rid, closed |-> FALSE]]
    /\ UNCHANGED <<lbc, lrecv, ljoin, lsubmitted, lentered, llog>>
    /\ UNCHANGED nonLiveVars

\* data = await ws.receive_bytes(); hub.broadcast(data) up to its first await
SenderReceive(c) ==
    /\ lconn[c].pc = "s_recv"
    /\ ~lconn[c].closed
    /\ lsubmitted[lconn[c].rid] < MaxFrames
    /\ \E payload \in Payloads :
         LET rid == lconn[c].rid
             f == [seq |-> lsubmitted[rid] + 1, data |-> payload]
             h == SetLatest(live_hubs[rid], f)
         IN /\ lsubmitted' = [lsubmitted EXCEPT ![rid] = @ + 1]
            /\ IF LockFree(h)
               THEN /\ LiveBroadcastEnter(c, rid, h, f)
                    /\ lentered' = [lentered EXCEPT ![rid] = @ + 1]
               ELSE /\ live_hubs' = PutHub(live_hubs, rid, Enqueue(h, c))
                    /\ lconn' = [lconn EXCEPT ![c].pc = "s_lockwait"]
                    /\ lbc' = [lbc EXCEPT ![c] = [NoBroadcast EXCEPT !.data = f]]
                    /\ UNCHANGED <<lrecv, lentered, llog>>
    /\ UNCHANGED ljoin
    /\ UNCHANGED nonLiveVars

\* the sender's acquire() is woken
SenderLockGranted(c) ==
    /\ lconn[c].pc = "s_lockwait"
    /\ LockGranted(live_hubs[lconn[c].rid], c)
    /\ LiveBroadcastEnter(c, lconn[c].rid, Dequeue(live_hubs[lconn[c].rid], c), lbc[c].data)
    /\ lentered' = [lentered EXCEPT ![lconn[c].rid] = @ + 1]
    /\ UNCHANGED <<ljoin, lsubmitted>>
    /\ UNCHANGED nonLiveVars

\* "await ws.send_bytes(data)" returns or raises inside the loop
SenderSendReturns(c) ==
    /\ lconn[c].pc = "s_send"
    /\ LiveFanOut(c, lconn[c].rid, live_hubs[lconn[c].rid], lbc[c])
    /\ UNCHANGED <<ljoin, lsubmitted, lentered>>
    /\ UNCHANGED nonLiveVars

\* receive_bytes raises WebSocketDisconnect: the sender's handler returns
SenderEnd(c) ==
    /\ lconn[c].pc = "s_recv"
    /\ lconn[c].closed
    /\ lconn' = [lconn EXCEPT ![c].pc = "done"]
    /\ UNCHANGED <<live_hubs, lbc, lrecv, ljoin, lsubmitted, lentered, llog>>
    /\ UNCHANGED nonLiveVars

(***************************************************************************)
(* add_viewer's locked section by viewer c on hub h (the lock is taken and *)
(* released without an await in between), then "if hub.latest: await       *)
(* ws.send_bytes(hub.latest)" up to its await.                             *)
(***************************************************************************)
ViewerJoin(c, rid, h) ==
    /\ live_hubs' = PutHub(live_hubs, rid, [h EXCEPT !.viewers = @ \cup {c}])
    /\ ljoin' = [ljoin EXCEPT ![c] = [submitted |-> lsubmitted[rid], entered |-> lentered[rid]]]
    /\ IF Truthy(h.latest)
       THEN /\ lrecv' = Delivered(lconn, lrecv, c, h.latest)
            /\ lconn' = [lconn EXCEPT ![c] = [@ EXCEPT !.pc = "v_replay", !.role = "viewer", !.rid = rid]]
       ELSE /\ lrecv' = lrecv
            /\ lconn' = [lconn EXCEPT ![c] = [@ EXCEPT !.pc = "v_recv", !.role = "viewer", !.rid = rid]]

\* live_ws, role == "viewer": ws.accept(), the hub, hub.add_viewer(ws)
LiveConnectViewer(c, rid) ==
    /\ lconn[c].pc = "idle"
    /\ LET h == SetDefaultHub(live_hubs, rid)[rid]
       IN IF LockFree(h)
          THEN ViewerJoin(c, rid, h)
          ELSE /\ live_hubs' = PutHub(live_hubs, rid, Enqueue(h, c))
               /\ lconn' = [lconn EXCEPT ![c] = [@ EXCEPT !.pc = "v_addwait", !.role = "viewer", !.rid = rid]]
               /\ UNCHANGED <<lrecv, ljoin>>
    /\ UNCHANGED <<lbc, lsubmitted, lentered, llog>>
    /\ UNCHANGED nonLiveVars

\* the viewer's acquire() in add_viewer is woken
ViewerAddGranted(c) ==
    /\ lconn[c].pc = "v_addwait"
    /\ LockGranted(live_hubs[lconn[c].rid], c)
    /\ ViewerJoin(c, lconn[c].rid, Dequeue(live_hubs[lconn[c].rid], c))
    /\ UNCHANGED <<lbc, lsubmitted, lentered, llog>>
    /\ UNCHANGED nonLiveVars

\* the replay's "await ws.send_bytes(hub.latest)" returns or raises (except: pass)
ViewerReplayReturns(c) ==
    /\ lconn[c].pc = "v_replay"
    /\ lconn' = [lconn EXCEPT ![c].pc = "v_recv"]
    /\ UNCHANGED <<live_hubs, lbc, lrecv, ljoin, lsubmitted, lentered, llog>>
    /\ UNCHANGED nonLiveVars

\* remove_viewer's locked section
ViewerLeaveKeepsSocket(c, rid, h) ==
    /\ live_hubs' = PutHub(live_hubs, rid, h)
    /\ lconn' = [lconn EXCEPT ![c].pc = "done"]
ViewerLeave(c, rid, h) ==
    /\ live_hubs' = PutHub(live_hubs, rid, [h EXCEPT !.viewers = @ \ {c}])
    /\ lconn' = [lconn EXCEPT ![c].pc = "done"]

\* "await ws.receive()" ends the loop: finally: hub.remove_viewer(ws)
ViewerEnd(c) ==
    /\ lconn[c].pc = "v_recv"
    /\ lconn[c].closed
    /\ LET rid == lconn[c].rid
           h == live_hubs[rid]
       IN IF LockFree(h)
          THEN ViewerLeave(c, rid, h)
          ELSE /\ live_hubs' = PutHub(live_hubs, rid, Enqueue(h, c))
               /\ lconn' = [lconn EXCEPT ![c].pc = "v_rmwait"]
    /\ UNCHANGED <<lbc, lrecv, ljoin, lsubmitted, lentered, llog>>
    /\ UNCHANGED nonLiveVars

\* the viewer's acquire() in remove_viewer is woken
ViewerRemoveGranted(c) ==
    /\ lconn[c].pc = "v_rmwait"
    /\ LockGranted(live_hubs[lconn[c].rid], c)
    /\ ViewerLeave(c, lconn[c].rid, Dequeue(live_hubs[lconn[c].rid], c))
    /\ UNCHANGED <<lbc, lrecv, ljoin, lsubmitted, lentered, llog>>
    /\ UNCHANGED nonLiveVars

\* the peer of a live connection closes its socket
LiveClientClose(c) ==
    /\ lconn[c].pc \notin {"idle", "done"}
    /\ ~lconn[c].closed
    /\ lconn' = [lconn EXCEPT ![c].closed = TRUE]
    /\ UNCHANGED <<live_hubs, lbc, lrecv, ljoin, lsubmitted, lentered, llog>>
    /\ UNCHANGED nonLiveVars

LiveInit ==
    /\ live_hubs = [r \in {} |-> NewLiveHub]
    /\ lconn = [c \in LiveConns |-> IdleConn]
    /\ lbc = [c \in LiveConns |-> NoBroadcast]
    /\ lrecv = [c \in LiveConns |-> <<>>]
    /\ ljoin = [c \in LiveConns |-> [submitted |-> 0, entered |-> 0]]
    /\ lsubmitted = [r \in LiveRids |-> 0]
    /\ lentered = [r \in LiveRids |-> 0]
    /\ llog = {}

LiveNext ==
    \/ \E c \in LiveConns, rid \in LiveRids : LiveConnectSender(c, rid)
    \/ \E c \in LiveConns, rid \in LiveRids : LiveConnectViewer(c, rid)
    \/ \E c \in LiveConns : SenderReceive(c)
    \/ \E c \in LiveConns : SenderLockGranted(c)
    \/ \E c \in LiveConns : SenderSendReturns(c)
    \/ \E c \in LiveConns : SenderEnd(c)
    \/ \E c \in LiveConns : ViewerAddGranted(c)
    \/ \E c \in LiveConns : ViewerReplayReturns(c)
    \/ \E c \in LiveConns : ViewerEnd(c)
    \/ \E c \in LiveConns : ViewerRemoveGranted(c)
    \/ \E c \in LiveConns : LiveClientClose(c)

(***************************************************************************)
(* Hub (/audio)                                                            *)
(***************************************************************************)
NoMsg == [seq |-> 0, from |-> "none"]

\* the sockets broadcast_bytes sends to: list(self.clients), skipping the sender
AudioRecipientsAll(h, sender) == h.clients
AudioRecipients(h, sender) == h.clients \ {sender}

\* ws.send_bytes(data) on an audio socket
AudioDelivered(ws, m) ==
    IF SendRaises(aconn, ws) THEN arecv ELSE [arecv EXCEPT ![ws] = Append(@, m)]

\* one iteration of the loop of Hub.broadcast_bytes, as LiveFanOut
AudioFanOut(c, h, b) ==
    IF b.todo # {}
    THEN \E ws \in b.todo :
            /\ arecv' = AudioDelivered(ws, b.data)
            /\ abc' = [abc EXCEPT ![c] =
                         [b EXCEPT !.todo = Rest(@, ws, SendRaises(aconn, ws)),
                                   !.attempted = @ \cup {ws},
                                   !.dead = IF SendRaises(aconn, ws) THEN @ \cup {ws} ELSE @]]
            /\ hub' = [h EXCEPT !.locked = TRUE]
            /\ aconn' = [aconn EXCEPT ![c].pc = "a_send"]
            /\ alog' = alog
    ELSE /\ hub' = [h EXCEPT !.clients = @ \ b.dead, !.locked = FALSE]
         /\ alog' = alog \cup {[msg |-> b.data, entry |-> b.entry,
                                attempted |-> b.attempted, raised |-> b.dead]}
         /\ abc' = [abc EXCEPT ![c] = NoBroadcast]
         /\ aconn' = [aconn EXCEPT ![c].pc = "a_recv"]
         /\ arecv' = arecv

AudioBroadcastEnter(c, h, m) ==
    AudioFanOut(c, h, [data |-> m, todo |-> AudioRecipients(h, c), dead |-> {},
                       attempted |-> {}, entry |-> h.clients])

\* audio_ws: ws.accept(), hub.add(ws)
AudioConnect(c) ==
    /\ aconn[c].pc = "idle"
    /\ IF LockFree(hub)
       THEN /\ hub' = [hub EXCEPT !.clients = @ \cup {c}]
            /\ aconn' = [aconn EXCEPT ![c].pc = "a_recv"]
       ELSE /\ hub' = Enqueue(hub, c)
            /\ aconn' = [aconn EXCEPT ![c].pc = "a_addwait"]
    /\ UNCHANGED <<abc, arecv, asubmitted, alog>>
    /\ UNCHANGED nonAudioVars

\* the acquire() of hub.add is woken
AudioAddGranted(c) ==
    /\ aconn[c].pc = "a_addwait"
    /\ LockGranted(hub, c)
    /\ hub' = [Dequeue(hub, c) EXCEPT !.clients = @ \cup {c}]
    /\ aconn' = [aconn EXCEPT ![c].pc = "a_recv"]
    /\ UNCHANGED <<abc, arecv, asubmitted, alog>>
    /\ UNCHANGED nonAudioVars

\* data = await ws.receive_bytes(); hub.broadcast_bytes(data, sender=ws)
AudioReceive(c) ==
    /\ aconn[c].pc = "a_recv"
    /\ ~aconn[c].closed
    /\ asubmitted < MaxAudioMsgs
    /\ asubmitted' = asubmitted + 1
    /\ LET m == [seq |-> asubmitted + 1, from |-> c]
       IN IF LockFree(hub)
          THEN AudioBroadcastEnter(c, hub, m)
          ELSE /\ hub' = Enqueue(hub, c)
               /\ aconn' = [aconn EXCEPT ![c].pc = "a_lockwait"]
               /\ abc' = [abc EXCEPT ![c] = [NoBroadcast EXCEPT !.data = m]]
               /\ UNCHANGED <<arecv, alog>>
    /\ UNCHANGED nonAudioVars

\* the acquire() of broadcast_bytes is woken
AudioLockGranted(c) ==
    /\ aconn[c].pc = "a_lockwait"
    /\ LockGranted(hub, c)
    /\ AudioBroadcastEnter(c, Dequeue(hub, c), abc[c].data)
    /\ UNCHANGED asubmitted
    /\ UNCHANGED nonAudioVars

\* "await ws.send_bytes(data)" returns or raises inside the loop
AudioSendReturns(c) ==
    /\ aconn[c].pc = "a_send"
    /\ AudioFanOut(c, hub, abc[c])
    /\ UNCHANGED asubmitted
    /\ UNCHANGED nonAudioVars

\* receive_bytes raises WebSocketDisconnect: finally: hub.remove(ws)
AudioEnd(c) ==
    /\ aconn[c].pc = "a_recv"
    /\ aconn[c].closed
    /\ IF LockFree(hub)
       THEN /\ hub' = [hub EXCEPT !.clients = @ \ {c}]
            /\ aconn' = [aconn EXCEPT ![c].pc = "done"]
       ELSE /\ hub' = Enqueue(hub, c)
            /\ aconn' = [aconn EXCEPT ![c].pc = "a_rmwait"]
    /\ UNCHANGED <<abc, arecv, asubmitted, alog>>
    /\ UNCHANGED nonAudioVars

\* the acquire() of hub.remove is woken
AudioRemoveGranted(c) ==
    /\ aconn[c].pc = "a_rmwait"
    /\ LockGranted(hub, c)
    /\ hub' = [Dequeue(hub, c) EXCEPT !.clients = @ \ {c}]
    /\ aconn' = [aconn EXCEPT ![c].pc = "done"]
    /\ UNCHANGED <<abc, arecv, asubmitted, alog>>
    /\ UNCHANGED nonAudioVars

\* the peer of an audio connection closes its socket
AudioClientClose(c) ==
    /\ aconn[c].pc \notin {"idle", "done"}
    /\ ~aconn[c].closed
    /\ aconn' = [aconn EXCEPT ![c].closed = TRUE]
    /\ UNCHANGED <<hub, abc, arecv, asubmitted, alog>>
    /\ UNCHANGED nonAudioVars

AudioInit ==
    /\ hub = [clients |-> {}, locked |-> FALSE, waiters |-> <<>>]
    /\ aconn = [c \in AudioConns |-> IdleConn]
    /\ abc = [c \in AudioConns |-> NoBroadcast]
    /\ arecv = [c \in AudioConns |-> <<>>]
    /\ asubmitted = 0
    /\ alog = {}

AudioNext ==
    \/ \E c \in AudioConns : AudioConnect(c)
    \/ \E c \in AudioConns : AudioAddGranted(c)
    \/ \E c \in AudioConns : AudioReceive(c)
    \/ \E c \in AudioConns : AudioLockGranted(c)
    \/ \E c \in AudioConns : AudioSendReturns(c)
    \/ \E c \in AudioConns : AudioEnd(c)
    \/ \E c \in AudioConns : AudioRemoveGranted(c)
    \/ \E c \in AudioConns : AudioClientClose(c)

(***************************************************************************)
(* Receiver registry                                                       *)
(***************************************************************************)
STALE_SECONDS == 90
PRUNE_SECONDS == 60 * 60 * 24 * 30

None == "None"
RIDs == {"r1", "r2"}
Tags == {"t1", "t2"}
Space == " "
NL == "\n"
\* the characters str.strip() and str.split() take for blanks
Whitespace == {Space, NL}

\* a dict: a function whose domain is the set of its keys
Get(d, k, default) == IF k \in DOMAIN d THEN d[k] ELSE default

Put(d, k, v) == [x \in DOMAIN d \cup {k} |-> IF x = k THEN v ELSE d[x]]

Pop(d, k) == [x \in DOMAIN d \ {k} |-> d[x]]

SetDefault(d, k, v) == IF k \in DOMAIN d THEN d ELSE Put(d, k, v)

EmptyDict == [x \in {} |-> None]

\* str.strip() of a text given as the sequence of its words and blanks
RECURSIVE LStrip(_)
LStrip(t) == IF t # <<>> /\ Head(t) \in Whitespace THEN LStrip(Tail(t)) ELSE t

RECURSIVE RStrip(_)
RStrip(t) == IF t # <<>> /\ t[Len(t)] \in Whitespace THEN RStrip(SubSeq(t, 1, Len(t) - 1)) ELSE t

Strip(t) == RStrip(LStrip(t))

\* str.split(): the words between the runs of blanks
Split(t) == SelectSeq(t, LAMBDA u : u \notin Whitespace)

(***************************************************************************)
(* JSON.  A JSON text is the sequence of its tokens: the punctuation marks *)
(* and null, the string literals and the numbers.                          *)
(***************************************************************************)
Punct(c) == [k |-> "p", v |-> c]
StrTok(str) == [k |-> "s", v |-> str]
NumTok(n) == [k |-> "n", v |-> n]
IsPunct(tok, c) == tok.k = "p" /\ tok.v = c

\* json.dumps of an entry of the registry: last_seen is a float and is
\* written as a number, the other values are strs and are written as strings
RECURSIVE EntryMembers(_, _)
EntryMembers(info, keys) ==
    IF keys = {} THEN <<>>
    ELSE LET key == CHOOSE x \in keys : TRUE
             rest == keys \ {key}
         IN <<StrTok(key), Punct(":"),
              IF key = "last_seen" THEN NumTok(info[key]) ELSE StrTok(info[key])>>
            \o (IF rest = {} THEN <<>> ELSE <<Punct(",")>> \o EntryMembers(info, rest))

DumpsEntry(info) == <<Punct("{")>> \o EntryMembers(info, DOMAIN info) \o <<Punct("}")>>

\* json.dumps of the registry
RECURSIVE RegistryMembers(_, _)
RegistryMembers(recs, rids) ==
    IF rids = {} THEN <<>>
    ELSE LET rid == CHOOSE x \in rids : TRUE
             rest == rids \ {rid}
         IN <<StrTok(rid), Punct(":")>> \o DumpsEntry(recs[rid])
            \o (IF rest = {} THEN <<>> ELSE <<Punct(",")>> \o RegistryMembers(recs, rest))

DumpsRegistry(recs) == <<Punct("{")>> \o RegistryMembers(recs, DOMAIN recs) \o <<Punct("}")>>

\* json.dumps({"receivers": recs, "selected": sel}): None is written as null
JsonDumpsRegistryOnly(recs, sel) ==
    <<Punct("{"), StrTok("receivers"), Punct(":")>> \o DumpsRegistry(recs) \o <<Punct("}")>>
JsonDumps(recs, sel) ==
    <<Punct("{"), StrTok("receivers"), Punct(":")>> \o DumpsRegistry(recs)
    \o <<Punct(","), StrTok("selected"), Punct(":"),
         IF sel = None THEN Punct("null") ELSE StrTok(sel), Punct("}")>>

\* json.loads raises
JsonError == [ok |-> FALSE]

\* json.loads reading one value at the head of a text: the value, its kind
\* and the text after it
RECURSIVE ParseValue(_)
RECURSIVE ParseMembers(_, _)
ParseValue(t) ==
    IF t = <<>> THEN JsonError
    ELSE LET h == Head(t)
         IN CASE h.k = "s" -> [ok |-> TRUE, kind |-> "str", value |-> h.v, rest |-> Tail(t)]
              [] h.k = "n" -> [ok |-> TRUE, kind |-> "num", value |-> h.v, rest |-> Tail(t)]
              [] IsPunct(h, "null") ->
                    [ok |-> TRUE, kind |-> "null", value |-> None, rest |-> Tail(t)]
              [] IsPunct(h, "{") ->
                    IF Len(t) >= 2 /\ IsPunct(t[2], "}")
                    THEN [ok |-> TRUE, kind |-> "dict", value |-> EmptyDict,
                          rest |-> SubSeq(t, 3, Len(t))]
                    ELSE ParseMembers(Tail(t), EmptyDict)
              [] OTHER -> JsonError

\* the members of an object, from a key on, added to the members acc
ParseMembers(t, acc) ==
    IF Len(t) < 3 \/ t[1].k # "s" \/ ~IsPunct(t[2], ":") THEN JsonError
    ELSE LET member == ParseValue(SubSeq(t, 3, Len(t)))
         IN IF ~member.ok \/ member.rest = <<>> THEN JsonError
            ELSE IF IsPunct(Head(member.rest), "}")
            THEN [ok |-> TRUE, kind |-> "dict", value |-> Put(acc, t[1].v, member.value),
                  rest |-> Tail(member.rest)]
            ELSE IF IsPunct(Head(member.rest), ",")
            THEN ParseMembers(Tail(member.rest), Put(acc, t[1].v, member.value))
            ELSE JsonError

\* json.loads(text): one value and nothing after it
JsonLoads(text) ==
    LET data == ParseValue(text)
    IN IF data.ok /\ data.rest = <<>> THEN data ELSE JsonError

\* receivers.json is missing
NoFile == [exists |-> FALSE, text |-> <<>>]

\* receivers.json after write_text(json.dumps({"receivers": recs, "selected": sel}))
FileOf(recs, sel) == [exists |-> TRUE, text |-> JsonDumps(recs, sel)]

\* _save_state(): a write that raises leaves the file as it was
SaveState(recs, sel) ==
    IF disk_ok THEN FileOf(recs, sel)
    ELSE state_file

\* _load_state() with the registry recs and the selection sel in memory:
\* nothing is assigned when the file is missing, when json.loads raises and
\* when the value read is no dict (data.get raises)
LoadState(file, recs, sel) ==
    IF ~file.exists THEN [receivers |-> recs, selected |-> sel]
    ELSE LET data == JsonLoads(file.text)
         IN IF ~data.ok \/ data.kind # "dict"
            THEN [receivers |-> recs, selected |-> sel]
            ELSE [receivers |-> Get(data.value, "receivers", EmptyDict),
                  selected |-> Get(data.value, "selected", None)]

\* what _load_state() reads from the file at the start of the process, when
\* the registry is {} and the selection None (lines 59 and 60)
OnDisk(file) == LoadState(file, EmptyDict, None)

\* the receivers _prune_receivers(now) pops
PrunedAtThreshold(recs, now) ==
    {rid \in DOMAIN recs : now - Get(recs[rid], "last_seen", 0) >= PRUNE_SECONDS}
Pruned(recs, now) ==
    {rid \in DOMAIN recs : now - Get(recs[rid], "last_seen", 0) > PRUNE_SECONDS}

\* _prune_receivers: the registry, the selection and the file it leaves
PruneReceiversKeepSelection(recs, sel, file, now) ==
    LET gone == Pruned(recs, now)
        kept == [rid \in DOMAIN recs \ gone |-> recs[rid]]
    IN [receivers |-> kept,
        selected |-> sel,
        removed |-> gone # {},
        file |-> IF gone # {} THEN SaveState(kept, sel) ELSE file]
PruneReceivers(recs, sel, file, now) ==
    LET gone == Pruned(recs, now)
        kept == [rid \in DOMAIN recs \ gone |-> recs[rid]]
        sel2 == IF sel \in gone THEN None ELSE sel
    IN [receivers |-> kept,
        selected |-> sel2,
        removed |-> gone # {},
        file |-> IF gone # {} THEN SaveState(kept, sel2) ELSE file]

\* online = (now - last_seen) <= STALE_SECONDS
IsOnlineOrBusy(info, now) ==
    \/ (now - Get(info, "last_seen", 0)) <= STALE_SECONDS
    \/ Get(info, "mode", "") \in {"gif", "live"}
IsOnline(info, now) == (now - Get(info, "last_seen", 0)) <= STALE_SECONDS

\* _receiver_status(info, now): (status, status_key, online)
ReceiverStatus(info, now) ==
    LET mode == Get(info, "mode", "")
    IN IF ~IsOnline(info, now) THEN <<"Offline", "offline", FALSE>>
       ELSE IF mode \in {"gif", "gif_display"} THEN <<"Gif Display", "gif", TRUE>>
       ELSE IF mode \in {"live", "live_view", "stream"} THEN <<"Live View", "live", TRUE>>
       ELSE <<"Online", "online", TRUE>>

\* x or y
OrNone(x, y) == IF x = None THEN y ELSE x
Or(x, y) == IF x = "" \/ x = None THEN y ELSE x

\* the entry of the lists of /api/receivers for rid
ReceiverData(rid, info, now) ==
    LET alias == Or(Get(info, "alias", None), "")
        st == ReceiverStatus(info, now)
    IN [id |-> rid,
        name |-> Or(alias, Or(Get(info, "tag", None), rid)),
        tag |-> Get(info, "tag", None),
        alias |-> alias,
        last_seen |-> Get(info, "last_seen", 0),
        status |-> st[1],
        status_key |-> st[2],
        online |-> st[3]]

NoResponse == [kind |-> "none"]

\* GET /api/receivers
ApiReceivers ==
    LET p == PruneReceivers(receivers, selected, state_file, clock)
        all == {ReceiverData(rid, p.receivers[rid], clock) : rid \in DOMAIN p.receivers}
    IN /\ receivers' = p.receivers
       /\ selected' = p.selected
       /\ state_file' = p.file
       /\ resp' = [kind |-> "receivers",
                   online |-> {d \in all : d.online},
                   offline |-> {d \in all : ~d.online},
                   selected |-> p.selected]
       /\ UNCHANGED <<disk_ok, clock, ticks, inbox>>
       /\ UNCHANGED nonRegVars

\* tokens and tokens[0] in ("ONLINE", "PING") and len(tokens) >= 3
IsAnnouncementAnyHead(tokens) == Len(tokens) >= 3
IsAnnouncement(tokens) ==
    tokens # <<>> /\ tokens[1] \in {"ONLINE", "PING"} /\ Len(tokens) >= 3

\* the entry on_message stores for an announcement of (receiver_id, tag) at now
AnnouncedEntryFresh(recs, receiver_id, tag, now) ==
    [alias |-> "", tag |-> tag, last_seen |-> now, mode |-> ""]
AnnouncedEntry(recs, receiver_id, tag, now) ==
    LET entry == Get(recs, receiver_id,
                     [alias |-> "", tag |-> tag, last_seen |-> now, mode |-> ""])
        e1 == SetDefault(entry, "alias", "")
        e2 == SetDefault(e1, "mode", "")
        e3 == Put(e2, "tag", tag)
    IN Put(e3, "last_seen", now)

(***************************************************************************)
(* on_message reads _selected_receiver on line 264 and assigns it on line  *)
(* 265 without declaring it global: the name is a local variable of        *)
(* on_message, unbound when line 264 reads it, and the read raises         *)
(* UnboundLocalError.  The handler ends there: the entry is stored, the    *)
(* module's _selected_receiver is untouched and _save_state is not called. *)
(***************************************************************************)
SelectedIsGlobalInOnMessage == FALSE

\* content = (message.content or "").strip(); tokens = content.split():
\* whether content is empty, and the tokens
Parse(text) == [empty |-> Strip(text) = <<>>, tokens |-> Split(Strip(text))]

\* on_message, "if message.channel.id == COMMAND_CHANNEL_ID:", for a message
\* whose text parses to m
OnCommandMessage(m) ==
    IF m.empty \/ ~IsAnnouncement(m.tokens)
    THEN UNCHANGED <<receivers, selected, state_file>>
    ELSE LET recs == Put(receivers, m.tokens[2],
                         AnnouncedEntry(receivers, m.tokens[2], m.tokens[3], clock))
         IN /\ receivers' = recs
            /\ IF SelectedIsGlobalInOnMessage
               THEN /\ selected' = IF selected = None THEN m.tokens[2] ELSE selected
                    /\ state_file' = SaveState(recs, selected')
               ELSE UNCHANGED <<selected, state_file>>

(***************************************************************************)
(* The chat messages the model delivers: up to MaxTokens words, the k-th   *)
(* drawn from WordsAt(k), with blanks before, between and after them.      *)
(* Every word is one element of the text, so a text never holds two words  *)
(* side by side.                                                           *)
(***************************************************************************)
Heads == {"ONLINE", "PING", "TARGET", "online"}

WordsAt(k) == IF k = 1 THEN Heads ELSE IF k = 2 THEN RIDs ELSE Tags

TokenSeqs ==
    UNION {{t \in [1..n -> Heads \cup RIDs \cup Tags] : \A k \in 1..n : t[k] \in WordsAt(k)}
           : n \in 0..MaxTokens}

Blanks(n) == [i \in 1..n |-> Space]

RECURSIVE JoinWords(_, _)
JoinWords(toks, gap) ==
    IF Len(toks) <= 1 THEN toks
    ELSE <<Head(toks)>> \o Blanks(gap) \o JoinWords(Tail(toks), gap)

Contents ==
    {Blanks(l) \o JoinWords(t, g) \o Blanks(r) :
        t \in TokenSeqs, l \in 0..MaxPad, g \in 1..(MaxPad + 1), r \in 0..MaxPad}

COMMAND_CHANNEL == "command"
Channels == {COMMAND_CHANNEL, "other"}

\* the texts as on_message parses them
ParsedContents == {Parse(text) : text \in Contents}

\* the announcements receivers post: "ONLINE <id> <tag>" and "PING <id> <tag>"
Announcements ==
    {Parse(<<head, Space, rid, Space, tag>>) :
        head \in {"ONLINE", "PING"}, rid \in RIDs, tag \in Tags}

\* no gateway event is waiting for on_message
NoMessage == [channel |-> None]

\* the gateway hands the bot a message of a channel; m is its text as
\* on_message will parse it
Deliver(channel, m) ==
    /\ inbox = NoMessage
    /\ inbox' = [channel |-> channel, m |-> m]
    /\ UNCHANGED <<receivers, selected, state_file, disk_ok, clock, ticks, resp>>
    /\ UNCHANGED nonRegVars

\* a message arrives in the command channel
ChatMessage == \E m \in ParsedContents : Deliver(COMMAND_CHANNEL, m)

\* a message arrives in another channel
OtherChannelMessage == \E m \in Announcements : Deliver("other", m)

\* a receiver announces itself in the command channel
Announce == \E m \in Announcements : Deliver(COMMAND_CHANNEL, m)

(***************************************************************************)
(* Direct messages, key logs and screenshots.  A message of these kinds    *)
(* carries its channel, its author, its text, its attachments, its id and  *)
(* the time it was created.  The model takes the command, log and target   *)
(* channels for three different channels, none of them a direct one.       *)
(***************************************************************************)
MAX_DM_MESSAGES == 200

DM_CHANNEL == "dm"
LOG_CHANNEL == "log"
TARGET_CHANNEL == "target"

\* message.author: a person and a bot
Authors == {[id |-> "7", name |-> "ann", bot |-> FALSE],
            [id |-> "9", name |-> "rob", bot |-> TRUE]}

\* the words that start with bot.command_prefix, "?"
PrefixedWords == {"?", "?go"}

\* any(content.startswith(p) for p in prefixes if p)
StartsWithPrefix(content) == content # <<>> /\ Head(content) \in PrefixedWords

\* is_command = content and prefixes and any(...)
IsCommand(content) == content # <<>> /\ StartsWithPrefix(content)

\* whether on_message takes the message for a direct message to list
ListsAnyAuthor(msg) ==
    msg.channel = DM_CHANNEL
    /\ Strip(msg.text) # <<>> /\ ~IsCommand(Strip(msg.text))
Lists(msg) ==
    msg.channel = DM_CHANNEL /\ ~msg.author.bot
    /\ Strip(msg.text) # <<>> /\ ~IsCommand(Strip(msg.text))

\* line = f"{timestamp} - {username}: {content}", with the id of its message
DmLine(msg) ==
    [ts |-> msg.created, user |-> msg.author.name, content |-> Strip(msg.text),
     id |-> msg.id]

\* _dm_messages.append(line); if len(_dm_messages) > MAX_DM_MESSAGES: pop(0)
AppendDmDropNewest(list, line) ==
    IF Len(list) >= MAX_DM_MESSAGES THEN list ELSE Append(list, line)
AppendDm(list, line) ==
    LET l == Append(list, line)
    IN IF Len(l) > MAX_DM_MESSAGES THEN Tail(l) ELSE l

\* on_message, "Track DMs (non-commands)"
DmSection(msg) ==
    IF Lists(msg)
    THEN /\ dm_messages' = AppendDm(dm_messages, DmLine(msg))
         /\ latest_dm_user' = [id |-> msg.author.id, name |-> msg.author.name]
    ELSE UNCHANGED <<dm_messages, latest_dm_user>>

\* the text on_message keeps of a log message: without its code fence, the
\* three backquotes that Fence stands for
Fence == "fence"

RECURSIVE AfterFirstLine(_)
AfterFirstLine(t) ==
    IF t = <<>> THEN <<>> ELSE IF Head(t) = NL THEN Tail(t) ELSE AfterFirstLine(Tail(t))

KeylogText(content) ==
    LET text == Strip(content)
    IN IF text # <<>> /\ Head(text) = Fence /\ text[Len(text)] = Fence
       THEN LET inner == SubSeq(text, 2, Len(text) - 1)
            IN IF inner # <<>> /\ Head(inner) = NL THEN Tail(inner)
               ELSE IF NL \in Range(inner) THEN AfterFirstLine(inner)
               ELSE inner
       ELSE text

\* {"text": "", "message_id": "", "ts": ""}; ids and times are numbers in the
\* model and 0 stands for the empty string
NoKeylog == [text |-> <<>>, message_id |-> 0, ts |-> 0, received |-> 0]

\* on_message, "Track latest key logs posted by receiver"; received is the
\* time of the handling, which the program does not keep
KeylogSection(msg) ==
    IF msg.channel = LOG_CHANNEL /\ msg.text # <<>>
    THEN latest_keylog' = [text |-> KeylogText(msg.text), message_id |-> msg.id,
                           ts |-> msg.created, received |-> clock]
    ELSE UNCHANGED latest_keylog

\* "if message.channel.id == TARGET_CHANNEL_ID and message.attachments"
HasAttachments(msg) == msg.channel = TARGET_CHANNEL /\ msg.atts # <<>>

(***************************************************************************)
(* File names are sequences of units: a stem and the suffixes after it,    *)
(* each suffix with its dot.  str.lower() maps every unit to its lower     *)
(* case.                                                                   *)
(***************************************************************************)
Lower(unit) ==
    CASE unit = "SHOT" -> "shot"
      [] unit = ".PNG" -> ".png"
      [] unit = ".Jpg" -> ".jpg"
      [] OTHER -> unit

LowerName(filename) == [i \in 1..Len(filename) |-> Lower(filename[i])]

ImageExts == {".png", ".jpg", ".jpeg"}

\* name = (att.filename or "").lower(); name.endswith((".png", ".jpg", ".jpeg"))
IsImageNameOrGif(filename) ==
    LET name == LowerName(filename)
    IN name # <<>> /\ name[Len(name)] \in ImageExts \cup {".gif"}
IsImageName(filename) ==
    LET name == LowerName(filename)
    IN name # <<>> /\ name[Len(name)] \in ImageExts

\* ext = Path(name).suffix.lower(), ".png" when that is none of the three: a
\* name that is a suffix and nothing else has no Path suffix
ShotExt(filename) ==
    LET name == LowerName(filename)
        suffix == IF Len(name) >= 2 THEN name[Len(name)] ELSE ""
    IN IF suffix \in ImageExts THEN suffix ELSE ".png"

\* str(n): the text that writes the number n
Str(n) == <<n>>

\* the entry _store_screenshot_attachment(att, message, index) appends
ShotEntry(msg, index, filename) ==
    LET name == <<Str(msg.id), "_", Str(index), ShotExt(filename)>>
    IN [id |-> name,
        url |-> <<"/screenshots/">> \o name,
        message_id |-> Str(msg.id),
        ts |-> Str(msg.created)]

\* the first attachment from the from-th on that _store_screenshot_attachment
\* awaits att.read() for, 0 when there is none: the attachments before it
\* return None at once
RECURSIVE NextRead(_, _)
NextRead(atts, from) ==
    IF from > Len(atts) THEN 0
    ELSE IF IsImageName(atts[from]) THEN from
    ELSE NextRead(atts, from + 1)

\* on_message is suspended while it handles msg
Suspends(msg) == HasAttachments(msg) /\ NextRead(msg.atts, 1) # 0

\* the gateway hands the bot a direct message, a log message or a message of
\* the target channel, the max-th at most
DeliverChat(channel, author, text, atts, max) ==
    /\ inbox = NoMessage
    /\ delivered < max
    /\ delivered' = delivered + 1
    /\ inbox' = [channel |-> channel, author |-> author, text |-> text, atts |-> atts,
                 id |-> delivered + 1, created |-> clock]
    /\ UNCHANGED <<receivers, selected, state_file, disk_ok, clock, ticks, resp>>
    /\ UNCHANGED <<dm_messages, latest_dm_user, latest_keylog, screenshot_log,
                   latest_screenshot, reading>>
    /\ UNCHANGED <<liveVars, audioVars, cmdVars>>

\* on_message(message), for the message that waits in inbox and has no
\* attachment to read
OnMessage ==
    /\ inbox # NoMessage
    /\ inbox.channel \in {COMMAND_CHANNEL, "other"} \/ ~Suspends(inbox)
    /\ IF inbox.channel \in {COMMAND_CHANNEL, "other"}
       THEN UNCHANGED <<dm_messages, latest_dm_user, latest_keylog>>
       ELSE DmSection(inbox) /\ KeylogSection(inbox)
    /\ IF inbox.channel = COMMAND_CHANNEL
       THEN OnCommandMessage(inbox.m)
       ELSE UNCHANGED <<receivers, selected, state_file>>
    /\ LET announced == /\ inbox.channel = COMMAND_CHANNEL
                         /\ ~inbox.m.empty
                         /\ IsAnnouncement(inbox.m.tokens)
       IN resp' = [kind |-> "message",
                   announced |-> announced,
                   raised |-> announced /\ ~SelectedIsGlobalInOnMessage]
    /\ inbox' = NoMessage
    /\ UNCHANGED <<disk_ok, clock, ticks>>
    /\ UNCHANGED <<screenshot_log, latest_screenshot, reading, delivered>>
    /\ UNCHANGED <<liveVars, audioVars, cmdVars>>

\* GET /api/logs
ApiLogs ==
    /\ resp' = [kind |-> "logs", text |-> latest_keylog.text,
                message_id |-> latest_keylog.message_id, ts |-> latest_keylog.ts]
    /\ UNCHANGED <<receivers, selected, state_file, disk_ok, clock, ticks, inbox>>
    /\ UNCHANGED nonRegVars

\* GET /api/messages: the lines of the text, and the latest name
ApiMessages ==
    /\ resp' = [kind |-> "messages", text |-> dm_messages,
                latest |-> Get(latest_dm_user, "name", "")]
    /\ UNCHANGED <<receivers, selected, state_file, disk_ok, clock, ticks, inbox>>
    /\ UNCHANGED nonRegVars

\* on_message(message) for a message of the target channel, up to the first
\* await of att.read()
StartReading ==
    /\ inbox # NoMessage
    /\ inbox.channel \notin {COMMAND_CHANNEL, "other"} /\ Suspends(inbox)
    /\ DmSection(inbox)
    /\ reading' = reading \cup {[msg |-> inbox, idx |-> NextRead(inbox.atts, 1)]}
    /\ resp' = [kind |-> "reading"]
    /\ inbox' = NoMessage
    /\ UNCHANGED <<receivers, selected, state_file, disk_ok, clock, ticks>>
    /\ UNCHANGED <<latest_keylog, screenshot_log, latest_screenshot, delivered>>
    /\ UNCHANGED <<liveVars, audioVars, cmdVars>>

\* the suspended handler of the message id
Reader(id) == CHOOSE h \in reading : h.msg.id = id

\* att.read() returns or raises in the handler of the message id,
\* target.write_bytes(data) returns or raises, and on_message runs on to the
\* next att.read() or to its end
ReadReturns(id, read_ok, write_ok) ==
    /\ \E h \in reading : h.msg.id = id
    /\ LET h == Reader(id)
           msg == h.msg
           stored == read_ok /\ write_ok
           entry == ShotEntry(msg, h.idx - 1, msg.atts[h.idx])
           next == NextRead(msg.atts, h.idx + 1)
       IN /\ screenshot_log' =
                IF stored THEN Append(screenshot_log, entry) ELSE screenshot_log
          /\ latest_screenshot' =
                IF stored
                THEN [url |-> entry.url, message_id |-> entry.message_id, ts |-> entry.ts]
                ELSE latest_screenshot
          /\ reading' =
                (reading \ {h}) \cup (IF next # 0 THEN {[h EXCEPT !.idx = next]} ELSE {})
          /\ IF next = 0 THEN KeylogSection(msg) ELSE UNCHANGED latest_keylog
          /\ resp' = [kind |-> "attachment", stored |-> stored]
    /\ UNCHANGED <<receivers, selected, state_file, disk_ok, clock, ticks, inbox>>
    /\ UNCHANGED <<dm_messages, latest_dm_user, delivered>>
    /\ UNCHANGED <<liveVars, audioVars, cmdVars>>

\* _latest_screenshot = {"url": "", "message_id": "", "ts": ""}
NoShot == [url |-> <<>>, message_id |-> <<>>, ts |-> <<>>]

\* _load_screenshot_log() at the start of the process: the log and the latest
\* screenshot it leaves.  data is what json.loads reads: a list of items
\* that are dicts or not, or something else.
LoadScreenshotLog(file) ==
    LET log == IF file.exists /\ file.readable /\ file.data.kind = "list"
               THEN LET dicts == SelectSeq(file.data.items, LAMBDA item : item.kind = "dict")
                    IN [i \in 1..Len(dicts) |-> dicts[i].value]
               ELSE <<>>
    IN [log |-> log,
        latest |-> IF log # <<>>
                   THEN [url |-> Get(log[Len(log)], "url", <<>>),
                         message_id |-> Get(log[Len(log)], "message_id", <<>>),
                         ts |-> Get(log[Len(log)], "ts", <<>>)]
                   ELSE NoShot]

MediaInit ==
    /\ dm_messages = <<>>
    /\ latest_dm_user = [id |-> "", name |-> ""]
    /\ latest_keylog = NoKeylog
    /\ screenshot_log = <<>>
    /\ latest_screenshot = NoShot
    /\ reading = {}
    /\ delivered = 0

\* the alias field of the rename form: absent, or a text of one word at most
AliasWords == {"al"}
AliasTexts ==
    {Blanks(l) \o w \o Blanks(r) :
        w \in {<<>>} \cup {<<a>> : a \in AliasWords}, l \in 0..MaxPad, r \in 0..MaxPad}

\* what _read_form_value returns for "alias": None, or the text of the field
NoAlias == [given |-> FALSE, text |-> <<>>]
AliasForms == {NoAlias} \cup {[given |-> TRUE, text |-> t] : t \in AliasTexts}

\* the str of a text of one word at most
AsStr(t) == IF t = <<>> THEN "" ELSE t[1]

\* what ui_rename does to the entry of rid, given the alias read from the form
RenamedAsTag(info, alias) == Put(info, "tag", AsStr(Strip(alias)))
Renamed(info, alias) ==
    IF Strip(alias) # <<>>
    THEN Put(info, "alias", AsStr(Strip(alias)))
    ELSE Pop(info, "alias")

\* ui_rename(rid, request), from the return of _read_form_value to the
\* response
RenameReceiver(rid, alias) ==
    LET p == PruneReceivers(receivers, selected, state_file, clock)
    IN /\ selected' = p.selected
       /\ IF rid \in DOMAIN p.receivers /\ alias.given
          THEN /\ receivers' = Put(p.receivers, rid, Renamed(p.receivers[rid], alias.text))
               /\ state_file' = IF disk_ok
                                THEN FileOf(receivers', p.selected)
                                ELSE p.file
          ELSE /\ receivers' = p.receivers
               /\ state_file' = p.file
       /\ UNCHANGED <<disk_ok, clock, ticks, inbox>>
       /\ UNCHANGED nonRegVars

\* POST /ui/rename/{rid} of the form of the page, answered by a redirect; pin
\* tells whether the requester has entered REQUIRED_PIN in the overlay of the
\* page, which no handler reads
UiRename(rid, alias, pin) ==
    /\ RenameReceiver(rid, alias)
    /\ resp' = NoResponse

\* POST /ui/rename/{rid} with X-Requested-With: fetch, answered by
\* {"ok": True, "id": rid, "alias": alias or ""}; resp also keeps the value
\* _read_form_value returned, which is None when the form has no alias
UiRenameFetch(rid, alias) ==
    /\ RenameReceiver(rid, alias)
    /\ resp' = [kind |-> "rename", id |-> rid, alias |-> alias.text, form |-> alias]

\* POST /ui/select/{tag}
UiSelect(tag, pin) ==
    LET p == PruneReceivers(receivers, selected, state_file, clock)
    IN /\ receivers' = p.receivers
       /\ IF tag \in DOMAIN p.receivers
          THEN /\ selected' = tag
               /\ state_file' = IF disk_ok
                                THEN FileOf(p.receivers, tag)
                                ELSE p.file
          ELSE /\ selected' = p.selected
               /\ state_file' = p.file
       /\ resp' = NoResponse
       /\ UNCHANGED <<disk_ok, clock, ticks, inbox>>
       /\ UNCHANGED nonRegVars

\* time passes
TimeSteps == {1, STALE_SECONDS, PRUNE_SECONDS}

\* _wait_controller_ready(timeout=5.0): a handler waits no longer
WAIT_TIMEOUT == 5

Tick(d) ==
    /\ ticks < MaxTicks
    /\ d > WAIT_TIMEOUT => \A q \in DOMAIN req : req[q].pc # "wait"
    /\ ticks' = ticks + 1
    /\ clock' = clock + d
    /\ resp' = NoResponse
    /\ UNCHANGED <<receivers, selected, state_file, disk_ok, inbox>>
    /\ UNCHANGED nonRegVars

\* writes to the directory of main.py start or stop failing
DiskChange ==
    /\ disk_ok' = ~disk_ok
    /\ resp' = NoResponse
    /\ UNCHANGED <<receivers, selected, state_file, clock, ticks, inbox>>
    /\ UNCHANGED nonRegVars

(***************************************************************************)
(* The command endpoints.  A handler runs until it awaits: in              *)
(* _wait_controller_ready, where it may be suspended until the bot is      *)
(* ready or the five seconds are over, and in _send_cmd, where it is       *)
(* suspended while the message travels to the chat service.  Handlers of   *)
(* other requests run in between.                                          *)
(***************************************************************************)
Requests == {"q1"}

\* what _read_form_value returns: None, or the text of the field
FormValues == {None, "", "calc"}

\* the endpoints: the command word, the form field the handler reads first,
\* whether it answers 400 when no receiver is selected, and the mode it
\* gives the selected receiver after the send
Endpoints ==
    {[path |-> "/cmd/gif/start", cmd |-> "DISPLAY_GIF_START", field |-> None,
      needs_selection |-> FALSE, sets_mode |-> TRUE, mode |-> "gif"],
     [path |-> "/cmd/gif/stop", cmd |-> "DISPLAY_GIF_STOP", field |-> None,
      needs_selection |-> FALSE, sets_mode |-> TRUE, mode |-> ""],
     [path |-> "/ui/logs/start", cmd |-> "LOGS_START", field |-> None,
      needs_selection |-> FALSE, sets_mode |-> FALSE, mode |-> ""],
     [path |-> "/ui/logs/stop", cmd |-> "LOGS_STOP", field |-> None,
      needs_selection |-> FALSE, sets_mode |-> FALSE, mode |-> ""],
     [path |-> "/ui/logout", cmd |-> "LOGOUT", field |-> None,
      needs_selection |-> FALSE, sets_mode |-> FALSE, mode |-> ""],
     [path |-> "/ui/open", cmd |-> "OPEN_LINK", field |-> "url",
      needs_selection |-> FALSE, sets_mode |-> FALSE, mode |-> ""],
     [path |-> "/ui/close", cmd |-> "KILL_PROCESS", field |-> "proc",
      needs_selection |-> FALSE, sets_mode |-> FALSE, mode |-> ""],
     [path |-> "/ui/volume", cmd |-> "SET_VOLUME", field |-> "level",
      needs_selection |-> FALSE, sets_mode |-> FALSE, mode |-> ""],
     [path |-> "/ui/screenshot", cmd |-> "SCREENSHOT", field |-> None,
      needs_selection |-> FALSE, sets_mode |-> FALSE, mode |-> ""],
     [path |-> "/ui/live/start", cmd |-> "LIVE_START", field |-> None,
      needs_selection |-> TRUE, sets_mode |-> TRUE, mode |-> "live"],
     [path |-> "/ui/live/stop", cmd |-> "LIVE_STOP", field |-> None,
      needs_selection |-> TRUE, sets_mode |-> TRUE, mode |-> ""],
     [path |-> "/ui/panic", cmd |-> "PANIC", field |-> None,
      needs_selection |-> TRUE, sets_mode |-> FALSE, mode |-> ""]}

\* ui_surprise sends DISPLAY_GIF_START with the files of SurpriseFiles that lie
\* next to main.py, and puts the selected receiver in gif mode
SurpriseFiles == {"M.gif", "sound.mp3"}

SurpriseEndpoint ==
    [path |-> "/ui/surprise", cmd |-> "DISPLAY_GIF_START", field |-> None,
     needs_selection |-> FALSE, sets_mode |-> TRUE, mode |-> "gif"]

Endpoint(path) == CHOOSE ep \in Endpoints \cup {SurpriseEndpoint} : ep.path = path

\* _build_live_ws_url(request, rid), for a request to http://host
LiveWsUrl(rid) ==
    CASE rid = "r1" -> "ws://host/live/r1?role=sender"
      [] rid = "r2" -> "ws://host/live/r2?role=sender"
      [] OTHER -> "ws://host/live/None?role=sender"

\* _cmd_with_selection(cmd, *args): the words of the message
CmdWithSelectionUntargeted(sel, cmd, args) == <<cmd>> \o args
CmdWithSelection(sel, cmd, args) ==
    IF sel # None /\ sel # ""
    THEN <<"TARGET", sel, cmd>> \o args
    ELSE <<"TARGET", "NONE", cmd>> \o args

\* _set_receiver_mode(rid, mode): the registry and the file it leaves
SetReceiverModeAlone(recs, sel, file, rid, mode) ==
    IF rid = None \/ rid = "" \/ rid \notin DOMAIN recs
    THEN [receivers |-> recs, file |-> file]
    ELSE LET recs2 == Put(recs, rid, [mode |-> mode])
         IN [receivers |-> recs2, file |-> SaveState(recs2, sel)]
SetReceiverMode(recs, sel, file, rid, mode) ==
    IF rid = None \/ rid = "" \/ rid \notin DOMAIN recs \/ DOMAIN Get(recs, rid, EmptyDict) = {}
    THEN [receivers |-> recs, file |-> file]
    ELSE LET info == IF mode # "" THEN Put(recs[rid], "mode", mode) ELSE Pop(recs[rid], "mode")
             recs2 == Put(recs, rid, info)
         IN [receivers |-> recs2, file |-> SaveState(recs2, sel)]

IdleReq ==
    [pc |-> "idle", path |-> None, pin |-> FALSE, value |-> None, at_entry |-> None,
     msg |-> <<>>, at_format |-> None, send |-> "none", status |-> 0, files |-> {}]

\* the handler returns
Respond(r, status) == [r EXCEPT !.pc = "done", !.status = status]

\* what the handler does once _send_cmd has returned
Finish(q, r, recs, file) ==
    LET ep == Endpoint(r.path)
        m == IF ep.sets_mode
             THEN SetReceiverMode(recs, selected, file, selected, ep.mode)
             ELSE [receivers |-> recs, file |-> file]
    IN /\ receivers' = m.receivers
       /\ state_file' = m.file
       /\ req' = [req EXCEPT ![q] = Respond(r, IF ep.path \in {"/cmd/gif/start", "/cmd/gif/stop"}
                                               THEN 200 ELSE 303)]

\* a request arrives and its handler runs up to _wait_controller_ready
Request(q, ep, value, pin) ==
    /\ req[q].pc = "idle"
    /\ value \in IF ep.field = None THEN {None} ELSE FormValues
    /\ LET r == [IdleReq EXCEPT !.path = ep.path, !.pin = pin, !.value = value,
                                !.at_entry = selected]
       IN req' = [req EXCEPT ![q] =
                    IF ep.field # None
                    THEN IF value # None /\ value # ""
                         THEN [r EXCEPT !.pc = "wait",
                                        !.msg = CmdWithSelection(selected, ep.cmd, <<value>>),
                                        !.at_format = selected]
                         ELSE Respond(r, 303)
                    ELSE IF ep.needs_selection /\ (selected = None \/ selected = "")
                         THEN Respond(r, 400)
                         ELSE [r EXCEPT !.pc = "wait"]]
    /\ UNCHANGED <<controller, sent>>
    /\ UNCHANGED regVars
    /\ UNCHANGED outsideVars

\* POST /ui/surprise arrives and its handler runs up to
\* _wait_controller_ready; files are the files of SurpriseFiles that exist
UiSurprise(q, files, pin) ==
    /\ req[q].pc = "idle"
    /\ LET r == [IdleReq EXCEPT !.path = SurpriseEndpoint.path, !.pin = pin,
                                !.at_entry = selected, !.files = files]
       IN req' = [req EXCEPT ![q] = IF files = {} THEN Respond(r, 400)
                                    ELSE [r EXCEPT !.pc = "wait"]]
    /\ UNCHANGED <<controller, sent>>
    /\ UNCHANGED regVars
    /\ UNCHANGED outsideVars

\* _wait_controller_ready returns False after its timeout
WaitTimesOutIgnored(q) ==
    /\ req[q].pc = "wait"
    /\ controller = "starting"
    /\ req' = [req EXCEPT ![q] =
                 [@ EXCEPT !.pc = "send",
                           !.msg = CmdWithSelection(selected, Endpoint(req[q].path).cmd, <<>>),
                           !.at_format = selected]]
    /\ UNCHANGED <<controller, sent>>
    /\ UNCHANGED regVars
    /\ UNCHANGED outsideVars
WaitTimesOut(q) ==
    /\ req[q].pc = "wait"
    /\ controller = "starting"
    /\ req' = [req EXCEPT ![q] = Respond(@, 503)]
    /\ UNCHANGED <<controller, sent>>
    /\ UNCHANGED regVars
    /\ UNCHANGED outsideVars

\* _wait_controller_ready returns True and the handler runs up to ch.send,
\* or to its end when _send_cmd returns because of _controller_error
WaitReturns(q) ==
    /\ req[q].pc = "wait"
    /\ controller # "starting"
    /\ LET ep == Endpoint(req[q].path)
           args == IF ep.path = "/ui/live/start" THEN <<LiveWsUrl(selected)>> ELSE <<>>
           r == IF ep.field # None THEN req[q]
                ELSE [req[q] EXCEPT !.msg = CmdWithSelection(selected, ep.cmd, args),
                                    !.at_format = selected]
       IN IF controller = "failed"
          THEN Finish(q, [r EXCEPT !.send = "not_ready"], receivers, state_file)
          ELSE /\ req' = [req EXCEPT ![q] = [r EXCEPT !.pc = "send"]]
               /\ UNCHANGED <<receivers, state_file>>
    /\ UNCHANGED <<controller, sent>>
    /\ UNCHANGED <<selected, disk_ok, clock, ticks, inbox, resp>>
    /\ UNCHANGED outsideVars

\* ch.send(msg) returns or raises, and the handler runs to its end
Posted(log, q, msg, pin) == Append(log, [by |-> q, msg |-> msg, pin |-> pin])

SendReturns(q, ok) ==
    /\ req[q].pc = "send"
    /\ req[q].path # SurpriseEndpoint.path
    /\ sent' = IF ok THEN Posted(sent, q, req[q].msg, req[q].pin) ELSE sent
    /\ Finish(q, [req[q] EXCEPT !.send = IF ok THEN "ok" ELSE "raised"], receivers, state_file)
    /\ UNCHANGED controller
    /\ UNCHANGED <<selected, disk_ok, clock, ticks, inbox, resp>>
    /\ UNCHANGED outsideVars

\* _send_cmd_with_files: ch.send returns or raises, and ui_surprise runs to
\* its end; attached are the files discord.File could open, and without any
\* the message ends in " (no files attached)"
NoFilesAttached == <<"(no files attached)">>

SendWithFilesReturns(q, attached, ok) ==
    /\ req[q].pc = "send"
    /\ req[q].path = SurpriseEndpoint.path
    /\ attached \subseteq req[q].files
    /\ sent' = IF ok
               THEN Posted(sent, q, IF attached = {} THEN req[q].msg \o NoFilesAttached
                                    ELSE req[q].msg, req[q].pin)
               ELSE sent
    /\ Finish(q, [req[q] EXCEPT !.send = IF ok THEN "ok" ELSE "raised"], receivers, state_file)
    /\ UNCHANGED controller
    /\ UNCHANGED <<selected, disk_ok, clock, ticks, inbox, resp>>
    /\ UNCHANGED outsideVars

\* on_ready: the bot has logged in
OnReady ==
    /\ controller = "starting"
    /\ controller' = "ready"
    /\ UNCHANGED <<req, sent>>
    /\ UNCHANGED regVars
    /\ UNCHANGED outsideVars

\* startup.run_bot: bot.start raised
BotFailed ==
    /\ controller = "starting"
    /\ controller' = "failed"
    /\ UNCHANGED <<req, sent>>
    /\ UNCHANGED regVars
    /\ UNCHANGED outsideVars

CmdInit ==
    /\ controller = "starting"
    /\ req = [q \in Requests |-> IdleReq]
    /\ sent = <<>>

\* no receivers.json: _load_state leaves the registry empty and nothing selected
RegInit ==
    /\ receivers = EmptyDict
    /\ selected = None
    /\ state_file = NoFile
    /\ disk_ok = TRUE
    /\ clock = 0
    /\ ticks = 0
    /\ inbox = NoMessage
    /\ resp = NoResponse

(***************************************************************************)
(* A restart: receivers.json holds what an earlier run of the process      *)
(* saved, and _load_state reads it.  An earlier run leaves entries with a  *)
(* tag and a last_seen, with or without an alias (ui_rename pops a blank   *)
(* one) and a mode (_set_receiver_mode pops an empty one), and a selection *)
(* that is None or a registered id.                                        *)
(***************************************************************************)
SavedAliases == {"", "al"}
SavedModes == {"", "gif", "live"}

Absent == "<absent>"

MakeEntry(tag, last_seen, alias, mode) ==
    [k \in {"tag", "last_seen"} \cup (IF alias = Absent THEN {} ELSE {"alias"})
                                \cup (IF mode = Absent THEN {} ELSE {"mode"}) |->
        CASE k = "tag" -> tag
          [] k = "last_seen" -> last_seen
          [] k = "alias" -> alias
          [] OTHER -> mode]

SavedEntries ==
    {MakeEntry(tag, 0, alias, mode) :
        tag \in Tags, alias \in SavedAliases \cup {Absent}, mode \in SavedModes \cup {Absent}}

\* the ids the file of the earlier run may hold
SavedIds == {"r1"}

SavedRegistries == UNION {[ids -> SavedEntries] : ids \in SUBSET SavedIds}

\* the files an earlier run leaves with the registries regs
FilesOf(regs) ==
    UNION {{FileOf(recs, sel) : sel \in DOMAIN recs \cup {None}} : recs \in regs}

SavedFiles == FilesOf(SavedRegistries)

\* the files a run leaves in which nobody renamed a receiver and r1, if it
\* announced itself, did so with tag t1 and was or was not put in gif mode
PanelFiles ==
    FilesOf({recs \in SavedRegistries :
                \A rid \in DOMAIN recs :
                    recs[rid] \in {MakeEntry("t1", 0, Absent, Absent),
                                   MakeEntry("t1", 0, Absent, "gif")}})

RestartFrom(files) ==
    /\ state_file \in files
    /\ receivers = OnDisk(state_file).receivers
    /\ selected = OnDisk(state_file).selected
    /\ disk_ok = TRUE
    /\ clock = 0
    /\ ticks = 0
    /\ inbox = NoMessage
    /\ resp = NoResponse

RestartInit == RestartFrom(SavedFiles)

PanelInit == RestartFrom(PanelFiles)

Init == LiveInit /\ AudioInit /\ RegInit /\ CmdInit /\ MediaInit

InitRestarted == LiveInit /\ AudioInit /\ RestartInit /\ CmdInit /\ MediaInit

InitPanel == LiveInit /\ AudioInit /\ PanelInit /\ CmdInit /\ MediaInit

(***************************************************************************)
(* _save_state and _load_state by themselves: the registry and the         *)
(* selection are any of a few, the process saves them, forgets them when   *)
(* it starts again, and loads them; the file may get lost or damaged, and  *)
(* the disk may stop taking writes.                                        *)
(***************************************************************************)
StateEntries ==
    {MakeEntry("t1", 0, Absent, Absent), MakeEntry("t1", 7, "al", "gif"),
     MakeEntry("t2", 0, "", "")}

StateRegistries == UNION {[ids -> StateEntries] : ids \in SUBSET RIDs}

\* texts json.loads raises on, and texts it reads as None and as a number, on
\* which data.get raises
UnreadableTexts ==
    LET text == JsonDumps(EmptyDict, None)
    IN {<<>>, <<Punct("{")>>, <<Punct("null")>>, <<NumTok(0)>>,
        SubSeq(text, 1, Len(text) - 1), text \o <<Punct("}")>>}

UnreadableFiles == {[exists |-> TRUE, text |-> text] : text \in UnreadableTexts}

StateInit ==
    /\ receivers \in StateRegistries
    /\ selected \in DOMAIN receivers \cup {None}
    /\ state_file = NoFile
    /\ disk_ok = TRUE
    /\ clock = 0
    /\ ticks = 0
    /\ inbox = NoMessage
    /\ resp = NoResponse

InitState == LiveInit /\ AudioInit /\ StateInit /\ CmdInit /\ MediaInit

\* the last _save_state() the response r remembers, through starts of the process
LastSave(r) ==
    IF r.kind = "saved" THEN r
    ELSE IF r.kind = "started" THEN r.saved
    ELSE NoResponse

\* _save_state(); resp remembers what was in memory and whether the write went through
SaveStateCall ==
    /\ state_file' = SaveState(receivers, selected)
    /\ resp' = [kind |-> "saved", receivers |-> receivers, selected |-> selected,
                written |-> disk_ok]
    /\ UNCHANGED <<receivers, selected, disk_ok, clock, ticks, inbox>>
    /\ UNCHANGED nonRegVars

\* _load_state(); resp remembers what was in memory and what the file was
LoadStateCall ==
    /\ receivers' = LoadState(state_file, receivers, selected).receivers
    /\ selected' = LoadState(state_file, receivers, selected).selected
    /\ resp' = [kind |-> "loaded", after |-> resp.kind,
                memory |-> [receivers |-> receivers, selected |-> selected]]
    /\ UNCHANGED <<state_file, disk_ok, clock, ticks, inbox>>
    /\ UNCHANGED nonRegVars

\* the process starts again: _receivers = {} and _selected_receiver = None
ProcessStart ==
    /\ receivers' = EmptyDict
    /\ selected' = None
    /\ resp' = [kind |-> "started", saved |-> LastSave(resp)]
    /\ UNCHANGED <<state_file, disk_ok, clock, ticks, inbox>>
    /\ UNCHANGED nonRegVars

\* receivers.json is removed, or gets a content _load_state cannot read
FileDamaged ==
    /\ state_file' \in {NoFile} \cup UnreadableFiles
    /\ resp' = [kind |-> "damaged"]
    /\ UNCHANGED <<receivers, selected, disk_ok, clock, ticks, inbox>>
    /\ UNCHANGED nonRegVars

StateNext ==
    \/ SaveStateCall
    \/ LoadStateCall
    \/ ProcessStart
    \/ FileDamaged
    \/ DiskChange

SpecState == InitState /\ [][StateNext]_vars

(***************************************************************************)
(* The screenshots: receivers post messages with attachments in the target *)
(* channel, after a start of the process that found the screenshots.json   *)
(* of an earlier run, or none.                                             *)
(***************************************************************************)
FileNames ==
    {<<>>, <<"shot", ".png">>, <<"SHOT", ".PNG">>, <<"shot", ".jpeg">>, <<"shot", ".Jpg">>,
     <<"shot", ".gif">>, <<"shot", ".png", ".txt">>}

\* the names of the attachments of a message that has two
PairNames == {<<"shot", ".png">>, <<"SHOT", ".PNG">>, <<"shot", ".gif">>}

Attachments == {<<a>> : a \in FileNames} \cup {<<a, b>> : a, b \in PairNames}

\* the entry an earlier run has logged
OldEntry == ShotEntry([id |-> 0, created |-> 0], 0, <<"shot", ".png">>)

DictItem(entry) == [kind |-> "dict", value |-> entry]
OtherItem == [kind |-> "str", value |-> "junk"]

ShotFiles ==
    {[exists |-> FALSE],
     [exists |-> TRUE, readable |-> FALSE],
     [exists |-> TRUE, readable |-> TRUE, data |-> [kind |-> "dict"]]}
    \cup {[exists |-> TRUE, readable |-> TRUE, data |-> [kind |-> "list", items |-> items]] :
            items \in {<<>>, <<DictItem(OldEntry)>>, <<DictItem(OldEntry), OtherItem>>}}

ShotsInit ==
    /\ dm_messages = <<>>
    /\ latest_dm_user = [id |-> "", name |-> ""]
    /\ latest_keylog = NoKeylog
    /\ \E file \in ShotFiles :
          /\ screenshot_log = LoadScreenshotLog(file).log
          /\ latest_screenshot = LoadScreenshotLog(file).latest
    /\ reading = {}
    /\ delivered = 0

InitShots == LiveInit /\ AudioInit /\ RegInit /\ CmdInit /\ ShotsInit

ShotMessage ==
    \E a \in {x \in Authors : x.bot}, atts \in Attachments :
        DeliverChat(TARGET_CHANNEL, a, <<>>, atts, MaxShots)

ShotsNext ==
    \/ ShotMessage
    \/ OnMessage
    \/ StartReading
    \/ \E id \in 1..MaxShots, read_ok, write_ok \in BOOLEAN : ReadReturns(id, read_ok, write_ok)

SpecShots == InitShots /\ [][ShotsNext]_vars

\* the names: receivers announce themselves, the operator renames them, the
\* dashboard polls /api/receivers, and time passes
NameAnnouncements ==
    {a \in Announcements :
        a.tokens[1] = "ONLINE" /\ <<a.tokens[2], a.tokens[3]>> \in {<<"r1", "t1">>, <<"r2", "t2">>}}

NameForms ==
    {NoAlias} \cup {[given |-> TRUE, text |-> t] :
                        t \in {<<>>, <<Space>>, <<"al">>, <<Space, "al", Space>>}}

NamesNext ==
    \/ \E m \in NameAnnouncements : Deliver(COMMAND_CHANNEL, m)
    \/ OnMessage
    \/ \E rid \in RIDs, alias \in NameForms : UiRenameFetch(rid, alias)
    \/ ApiReceivers
    \/ \E d \in {1, PRUNE_SECONDS} : Tick(d)

SpecNames == Init /\ [][NamesNext]_vars

(***************************************************************************)
(* _prune_receivers by itself: the registry holds receivers last seen at   *)
(* the start of the clock or a second later, one of them or none is        *)
(* selected, and _prune_receivers() is called as time passes and writes to *)
(* the disk succeed or fail.                                               *)
(***************************************************************************)
PruneEntries == {MakeEntry("t1", 0, "", ""), MakeEntry("t1", 1, "al", "gif")}

PruneRegistries == UNION {[ids -> PruneEntries] : ids \in SUBSET RIDs}

PruneInit ==
    /\ receivers \in PruneRegistries
    /\ selected \in DOMAIN receivers \cup {None}
    /\ state_file = NoFile
    /\ disk_ok = TRUE
    /\ clock = 1
    /\ ticks = 0
    /\ inbox = NoMessage
    /\ resp = NoResponse

InitPrune == LiveInit /\ AudioInit /\ PruneInit /\ CmdInit /\ MediaInit

\* _prune_receivers(); resp keeps what it returned and what was in memory
PruneReceiversCall ==
    LET p == PruneReceivers(receivers, selected, state_file, clock)
    IN /\ receivers' = p.receivers
       /\ selected' = p.selected
       /\ state_file' = p.file
       /\ resp' = [kind |-> "pruned", removed |-> p.removed,
                   memory |-> [receivers |-> receivers, selected |-> selected]]
       /\ UNCHANGED <<disk_ok, clock, ticks, inbox>>
       /\ UNCHANGED nonRegVars

PruneNext ==
    \/ PruneReceiversCall
    \/ \E d \in {1, PRUNE_SECONDS} : Tick(d)
    \/ DiskChange

SpecPrune == InitPrune /\ [][PruneNext]_vars

\* the selection: two receivers announce themselves, the operator selects
\* them, renames r1 (both requests prune first) and sends a command, and
\* time passes
SelAnnouncements == {a \in Announcements : a.tokens[1] = "ONLINE" /\ a.tokens[3] = "t1"}

SelForms == {f \in AliasForms : f.given /\ f.text \in {<<>>, <<"al">>}}

SelNext ==
    \/ \E m \in SelAnnouncements : Deliver(COMMAND_CHANNEL, m)
    \/ OnMessage
    \/ \E tag \in RIDs : UiSelect(tag, TRUE)
    \/ \E alias \in SelForms : UiRename("r1", alias, TRUE)
    \/ \E q \in Requests : Request(q, Endpoint("/ui/screenshot"), None, TRUE)
    \/ \E q \in Requests : WaitReturns(q)
    \/ \E q \in Requests : SendReturns(q, TRUE)
    \/ OnReady
    \/ \E d \in {1, PRUNE_SECONDS} : Tick(d)

SpecSel == Init /\ [][SelNext]_vars

\* the modes: two receivers announce themselves, the operator selects one and
\* sends the commands that change its mode, and selects again (which prunes)
\* while a handler is suspended
TargetedEndpoints ==
    {ep \in Endpoints : ep.path \in {"/cmd/gif/start", "/cmd/gif/stop",
                                     "/ui/live/start", "/ui/live/stop"}}

ModeNext ==
    \/ \E m \in SelAnnouncements : Deliver(COMMAND_CHANNEL, m)
    \/ OnMessage
    \/ \E tag \in RIDs : UiSelect(tag, TRUE)
    \/ \E q \in Requests, ep \in TargetedEndpoints : Request(q, ep, None, TRUE)
    \/ \E q \in Requests, files \in SUBSET SurpriseFiles : UiSurprise(q, files, TRUE)
    \/ \E q \in Requests : WaitReturns(q)
    \/ \E q \in Requests, ok \in BOOLEAN : SendReturns(q, ok)
    \/ \E q \in Requests, attached \in SUBSET SurpriseFiles, ok \in BOOLEAN :
          SendWithFilesReturns(q, attached, ok)
    \/ OnReady
    \/ Tick(PRUNE_SECONDS + 1)

SpecMode == Init /\ [][ModeNext]_vars

SpecLive == Init /\ [][LiveNext]_vars

SpecAudio == Init /\ [][AudioNext]_vars

\* the control panel: command requests and selections, while the bot logs in
\* and time passes
CmdNext ==
    \/ \E q \in Requests, ep \in Endpoints, value \in FormValues, pin \in BOOLEAN :
          Request(q, ep, value, pin)
    \/ \E q \in Requests : WaitTimesOut(q)
    \/ \E q \in Requests : WaitReturns(q)
    \/ \E q \in Requests, ok \in BOOLEAN : SendReturns(q, ok)
    \/ OnReady
    \/ BotFailed
    \/ \E tag \in RIDs, pin \in BOOLEAN : UiSelect(tag, pin)
    \/ \E rid \in RIDs, alias \in AliasForms, pin \in BOOLEAN : UiRename(rid, alias, pin)
    \/ ApiReceivers
    \/ \E d \in {1, PRUNE_SECONDS} : Tick(d)

SpecCmd == InitPanel /\ [][CmdNext]_vars

\* the registry: receiver r1 announces itself while the operator renames and
\* selects receivers and switches the gif mode, and time passes
RegAnnouncements == {a \in Announcements : a.tokens[1] = "ONLINE" /\ a.tokens[2] = "r1"}

AnnounceR1 == \E m \in RegAnnouncements : Deliver(COMMAND_CHANNEL, m)

ModeEndpoints == {ep \in Endpoints : ep.path \in {"/cmd/gif/start", "/cmd/gif/stop"}}

ShortAliasForms == {f \in AliasForms : Len(f.text) <= 1}

RegNext ==
    \/ AnnounceR1
    \/ OnMessage
    \/ \E rid \in RIDs, alias \in ShortAliasForms : UiRename(rid, alias, TRUE)
    \/ \E tag \in RIDs : UiSelect(tag, TRUE)
    \/ \E q \in Requests, ep \in ModeEndpoints : Request(q, ep, None, TRUE)
    \/ \E q \in Requests : WaitTimesOut(q)
    \/ \E q \in Requests : WaitReturns(q)
    \/ \E q \in Requests, ok \in BOOLEAN : SendReturns(q, ok)
    \/ OnReady
    \/ BotFailed
    \/ \E d \in {1, PRUNE_SECONDS} : Tick(d)

SpecReg == Init /\ [][RegNext]_vars

\* the key logs: a receiver posts them in the log channel, the dashboard polls
\* /api/logs, and time passes
LogTexts ==
    {<<>>, <<Space>>, <<"keys">>, <<"keys", NL>>, <<Fence, "keys", Fence>>,
     <<Fence, NL, "keys", Fence>>, <<Fence, "txt", NL, "keys", Fence>>}

LogMessage ==
    \E text \in LogTexts, a \in {x \in Authors : x.bot} :
        DeliverChat(LOG_CHANNEL, a, text, <<>>, MaxLogs)

LogsNext ==
    \/ LogMessage
    \/ OnMessage
    \/ ApiLogs
    \/ \E d \in TimeSteps : Tick(d)

SpecLogs == Init /\ [][LogsNext]_vars

\* the direct messages: people and bots write to the bot, or in a channel of a
\* guild, and the dashboard polls /api/messages
DmTexts ==
    {<<>>, <<Space>>, <<"hi">>, <<Space, "hi", Space>>, <<"hi", Space, "?go">>,
     <<"?">>, <<"?go">>, <<Space, "?go", Space, "hi">>}

DmChannels == {DM_CHANNEL, LOG_CHANNEL, "other"}

WrittenMessage ==
    \E channel \in DmChannels, a \in Authors, text \in DmTexts :
        DeliverChat(channel, a, text, <<>>, MaxDms)

DmNext ==
    \/ WrittenMessage
    \/ OnMessage
    \/ ApiMessages

SpecDm == Init /\ [][DmNext]_vars

\* the long conversation: one person writes direct messages until the DM list
\* is full, and a few more
LongMessage ==
    \E a \in {b \in Authors : ~b.bot} :
        DeliverChat(DM_CHANNEL, a, <<"hi">>, <<>>, MAX_DM_MESSAGES + MaxOver)

LongNext ==
    \/ LongMessage
    \/ OnMessage

SpecLong == Init /\ [][LongNext]_vars

\* the chat: messages arrive while time passes
ChatNext ==
    \/ ChatMessage
    \/ OtherChannelMessage
    \/ OnMessage
    \/ Tick(1)

SpecChat == InitRestarted /\ [][ChatNext]_vars

\* presence: receivers announce themselves, the dashboard polls /api/receivers
StatusNext ==
    \/ Announce
    \/ OnMessage
    \/ ApiReceivers
    \/ \E d \in TimeSteps : Tick(d)

SpecStatus == InitRestarted /\ [][StatusNext]_vars

(***************************************************************************)
(* Properties of the receiver registry                                     *)
(***************************************************************************)
Ids(list) == {d.id : d \in list}

\* C6: the response of GET /api/receivers holds each registered receiver in
\* exactly one of online and offline, and in online if and only if
\* now - last_seen <= 90 seconds, whatever its mode.
C6_OnlineIffSeenWithin90s ==
    resp.kind = "receivers" =>
        /\ Ids(resp.online) \cup Ids(resp.offline) = DOMAIN receivers
        /\ Ids(resp.online) \cap Ids(resp.offline) = {}
        /\ Cardinality(resp.online) + Cardinality(resp.offline) = Cardinality(DOMAIN receivers)
        /\ \A rid \in DOMAIN receivers :
              rid \in Ids(resp.online) <=> clock - receivers[rid]["last_seen"] <= 90

\* a response that lists a receiver in gif or live mode as offline, 91 seconds
\* after it was seen, and another receiver as online, 90 seconds after
C6_Witness ==
    /\ resp.kind = "receivers"
    /\ \E rid \in Ids(resp.offline) :
          /\ Get(receivers[rid], "mode", "") \in {"gif", "live"}
          /\ clock - receivers[rid]["last_seen"] = 91
    /\ \E rid \in Ids(resp.online) : clock - receivers[rid]["last_seen"] = 90

\* the claim's announcements: first token ONLINE or PING, three tokens or more
ClaimedAnnouncement(m) ==
    /\ ~m.empty
    /\ Len(m.tokens) >= 3
    /\ m.tokens[1] = "ONLINE" \/ m.tokens[1] = "PING"

\* C7: after an announcement arrived in the command channel the registry maps
\* its second token to an entry whose tag is the third token and whose
\* last_seen is the arrival time; an existing entry keeps its alias and mode
\* (an entry without one gets the empty one), and no other entry changes.
C7_AnnouncementStep ==
    inbox # NoMessage /\ inbox.channel = COMMAND_CHANNEL /\ inbox' = NoMessage
    /\ ClaimedAnnouncement(inbox.m) =>
        LET rid == inbox.m.tokens[2]
        IN /\ DOMAIN receivers' = DOMAIN receivers \cup {rid}
           /\ DOMAIN receivers'[rid] = {"alias", "last_seen", "tag", "mode"}
           /\ receivers'[rid]["tag"] = inbox.m.tokens[3]
           /\ receivers'[rid]["last_seen"] = clock
           /\ rid \in DOMAIN receivers =>
                 /\ receivers'[rid]["alias"] = Get(receivers[rid], "alias", "")
                 /\ receivers'[rid]["mode"] = Get(receivers[rid], "mode", "")
           /\ \A other \in DOMAIN receivers \ {rid} :
                 receivers'[other] = receivers[other]

\* C7: every step that handles an announcement of the command channel
\* registers it as C7_AnnouncementStep says.
C7_Announcement == [][C7_AnnouncementStep]_vars

\* a receiver with an alias and a mode announced itself again, under another
\* tag and later, next to another registered receiver
C7_Witness ==
    /\ resp.kind = "message" /\ resp.announced
    /\ state_file.exists /\ "r1" \in DOMAIN OnDisk(state_file).receivers
    /\ "r1" \in DOMAIN receivers /\ "r2" \in DOMAIN receivers
    /\ Get(receivers["r1"], "alias", None) = "al"
    /\ Get(receivers["r1"], "mode", None) = "gif"
    /\ receivers["r1"]["last_seen"] = clock /\ clock > 0
    /\ receivers["r1"]["tag"] # OnDisk(state_file).receivers["r1"]["tag"]

\* C8: a message of the command channel that is empty, has fewer than three
\* tokens, or whose first token is neither ONLINE nor PING leaves the registry
\* and the selected receiver unchanged.
C8_OtherMessageStep ==
    inbox # NoMessage /\ inbox.channel = COMMAND_CHANNEL /\ inbox' = NoMessage
    /\ ~ClaimedAnnouncement(inbox.m) =>
        UNCHANGED <<receivers, selected>>

\* C8: every step that handles another message of the command channel leaves
\* the registry and the selection unchanged.
C8_OtherMessagesChangeNothing == [][C8_OtherMessageStep]_vars

\* a message that is no announcement was handled with a receiver registered
\* and selected
C8_Witness ==
    /\ resp.kind = "message" /\ ~resp.announced
    /\ selected \in DOMAIN receivers

(***************************************************************************)
(* The two websocket endpoints together.  hub and the hubs of _live_hubs   *)
(* are separate objects with separate locks and the handlers of one        *)
(* endpoint touch nothing of the other, so a behaviour of SpecHubs         *)
(* exercises one of the two.                                               *)
(***************************************************************************)
AudioQuiet == \A c \in AudioConns : aconn[c].pc = "idle"
LiveQuiet == \A c \in LiveConns : lconn[c].pc = "idle"

HubsNext ==
    \/ LiveNext /\ AudioQuiet
    \/ AudioNext /\ LiveQuiet

SpecHubs == Init /\ [][HubsNext]_vars

(***************************************************************************)
(* The event loop resumes every coroutine that can run: one whose          *)
(* acquire() was woken, one whose receive raises because its peer has      *)
(* closed the socket, and, as every broadcast is taken to release its      *)
(* lock, one whose send_bytes has returned or raised.  Nothing makes a     *)
(* peer connect, send or close.  Three peers connect to /live/r1, as two   *)
(* senders and a viewer or as a sender and two viewers, or fewer; of the   *)
(* three peers of /audio two send.                                         *)
(***************************************************************************)
FairSenders == {"w1", "w2"}
FairViewers == {"w2", "w3"}
FairAudioSenders == {"a1", "a2"}

HubsFairNext ==
    \/ \E c \in FairSenders : AudioQuiet /\ LiveConnectSender(c, "r1")
    \/ \E c \in FairViewers : AudioQuiet /\ LiveConnectViewer(c, "r1")
    \/ \E c \in LiveConns : AudioQuiet /\ SenderReceive(c)
    \/ \E c \in LiveConns : AudioQuiet /\ SenderLockGranted(c)
    \/ \E c \in LiveConns : AudioQuiet /\ SenderSendReturns(c)
    \/ \E c \in LiveConns : AudioQuiet /\ SenderEnd(c)
    \/ \E c \in LiveConns : AudioQuiet /\ ViewerAddGranted(c)
    \/ \E c \in LiveConns : AudioQuiet /\ ViewerReplayReturns(c)
    \/ \E c \in LiveConns : AudioQuiet /\ ViewerEnd(c)
    \/ \E c \in LiveConns : AudioQuiet /\ ViewerRemoveGranted(c)
    \/ \E c \in LiveConns : AudioQuiet /\ LiveClientClose(c)
    \/ \E c \in AudioConns : LiveQuiet /\ AudioConnect(c)
    \/ \E c \in AudioConns : LiveQuiet /\ AudioAddGranted(c)
    \/ \E c \in FairAudioSenders : LiveQuiet /\ AudioReceive(c)
    \/ \E c \in AudioConns : LiveQuiet /\ AudioLockGranted(c)
    \/ \E c \in AudioConns : LiveQuiet /\ AudioSendReturns(c)
    \/ \E c \in AudioConns : LiveQuiet /\ AudioEnd(c)
    \/ \E c \in AudioConns : LiveQuiet /\ AudioRemoveGranted(c)
    \/ \E c \in AudioConns : LiveQuiet /\ AudioClientClose(c)

LiveResumes(c) ==
    \/ SenderLockGranted(c)
    \/ SenderSendReturns(c)
    \/ SenderEnd(c)
    \/ ViewerAddGranted(c)
    \/ ViewerReplayReturns(c)
    \/ ViewerEnd(c)
    \/ ViewerRemoveGranted(c)

AudioResumes(c) ==
    \/ AudioAddGranted(c)
    \/ AudioLockGranted(c)
    \/ AudioSendReturns(c)
    \/ AudioEnd(c)
    \/ AudioRemoveGranted(c)

HubsFairness ==
    /\ \A c \in LiveConns : WF_vars(LiveResumes(c))
    /\ \A c \in AudioConns : WF_vars(AudioResumes(c))

SpecHubsFair == Init /\ [][HubsFairNext]_vars /\ HubsFairness

(***************************************************************************)
(* Properties of the websocket hubs                                        *)
(***************************************************************************)
\* the connections with role=sender whose live_ws handler is running on rid
AttachedSenders(rid) ==
    {c \in LiveConns : /\ lconn[c].role = "sender"
                       /\ lconn[c].rid = rid
                       /\ lconn[c].pc \in {"s_recv", "s_lockwait", "s_send"}}

\* C1: for every receiver id, at most one connection with role=sender is
\* attached to the live hub of /live/{rid} at any time.
C1_AtMostOneSender == \A rid \in LiveRids : Cardinality(AttachedSenders(rid)) <= 1

\* C2: a completed broadcast has called send_bytes for exactly the viewers
\* that were in the hub's viewer set when it entered the locked section, and
\* every one of them whose send did not raise has the frame on its socket.
C2_FanOutReachesEntryViewers ==
    \A b \in llog :
        /\ b.attempted = b.entry
        /\ \A v \in b.entry : v \in b.raised \/ b.frame \in Range(lrecv[v])
        /\ \A v \in b.raised : SendRaises(lconn, v)

\* a broadcast to two viewers or more, one of them skipped because its send raised
C2_Witness ==
    \E b \in llog : /\ Cardinality(b.entry) >= 2
                    /\ b.raised # {}
                    /\ b.raised # b.entry

C4_AudioToEveryOtherClient ==
    /\ \A b \in alog :
          /\ b.attempted = b.entry \ {b.msg.from}
          /\ \A c \in b.attempted : c \in b.raised \/ b.msg \in Range(arecv[c])
    /\ \A c \in AudioConns : \A i \in 1..Len(arecv[c]) : arecv[c][i].from # c

\* a message of a registered client was relayed to two other clients
C4_Witness ==
    \E b \in alog : /\ b.msg.from \in b.entry
                    /\ Cardinality(b.attempted) >= 2
                    /\ b.raised = {}

\* the coroutines inside the locked section of a broadcast, across its awaits
LiveHolders(rid) ==
    {c \in LiveConns : lconn[c].rid = rid /\ lconn[c].pc = "s_send"}

AudioHolders == {c \in AudioConns : aconn[c].pc = "a_send"}

MutualExclusion ==
    /\ \A rid \in DOMAIN live_hubs :
          /\ Cardinality(LiveHolders(rid)) <= 1
          /\ live_hubs[rid].locked <=> LiveHolders(rid) # {}
    /\ Cardinality(AudioHolders) <= 1
    /\ hub.locked <=> AudioHolders # {}

\* a step taken while a broadcast holds the lock leaves the set alone, unless
\* it is that broadcast discarding its dead sockets as it releases the lock
SetsChangeUnderLockOnly ==
    /\ \A rid \in DOMAIN live_hubs :
          live_hubs[rid].locked =>
             \/ live_hubs'[rid].viewers = live_hubs[rid].viewers
             \/ \E c \in LiveHolders(rid) :
                   /\ lconn'[c].pc # "s_send"
                   /\ ~live_hubs'[rid].locked
                   /\ live_hubs'[rid].viewers = live_hubs[rid].viewers \ lbc[c].dead
    /\ hub.locked =>
          \/ hub'.clients = hub.clients
          \/ \E c \in AudioHolders :
                /\ aconn'[c].pc # "a_send"
                /\ ~hub'.locked
                /\ hub'.clients = hub.clients \ abc[c].dead

\* C5: at most one coroutine holds a hub's lock at a time, and the client and
\* viewer sets change only in the locked sections: no client or viewer is added
\* or removed between the start and the end of a broadcast's fan-out loop.
C5_LockDiscipline == [](MutualExclusion) /\ [][SetsChangeUnderLockOnly]_vars

\* while a broadcast holds the lock of a live hub, one viewer waits to be
\* added to its viewer set and another waits to be removed from it
C5_Witness ==
    \E rid \in DOMAIN live_hubs :
        /\ live_hubs[rid].locked
        /\ \E c \in Range(live_hubs[rid].waiters) : lconn[c].pc = "v_addwait"
        /\ \E c \in Range(live_hubs[rid].waiters) : lconn[c].pc = "v_rmwait"

(***************************************************************************)
(* Properties of the command endpoints                                     *)
(***************************************************************************)
\* the messages the handler of request q has posted, in order
SentBy(log, q) == SelectSeq(log, LAMBDA p : p.by = q)

\* "TARGET <id> <COMMAND> [args]" for the request with locals r, <id> being
\* the receiver selected when its message was formatted, or NONE
TargetMessage(r) ==
    LET ep == Endpoint(r.path)
    IN <<"TARGET", IF r.at_format = None THEN "NONE" ELSE r.at_format, ep.cmd>>
       \o (IF ep.field # None THEN <<r.value>>
           ELSE IF ep.path = "/ui/live/start" THEN <<LiveWsUrl(r.at_format)>>
           ELSE <<>>)

\* the handler of q returns in this step, with the bot logged in and no send
\* of it having failed
ReturnsLoggedIn(q) ==
    /\ req[q].pc # "done" /\ req'[q].pc = "done"
    /\ controller = "ready"
    /\ req'[q].send # "raised"

\* the request has what its handler asks for before it sends: a value in
\* its form field, a selected receiver as it arrives
Sendable(r) ==
    LET ep == Endpoint(r.path)
    IN /\ ep.field # None => r.value # None /\ r.value # ""
       /\ ep.needs_selection => r.at_entry # None

\* C9 as stated: with the bot logged in and sending successful, every command
\* request sends exactly one message to the command channel, of the form
\* "TARGET <id> <COMMAND> [args]" with <id> the receiver selected when the
\* message is formatted, or NONE.
C9_StatedStep ==
    \A q \in Requests :
        ReturnsLoggedIn(q) =>
            [i \in 1..Len(SentBy(sent', q)) |-> SentBy(sent', q)[i].msg]
                = <<TargetMessage(req'[q])>>

\* C9 as stated: whenever a handler returns with the bot logged in and no
\* failed send, its request has sent exactly one message, "TARGET <id>
\* <COMMAND> [args]" with <id> the receiver selected at formatting, or NONE.
C9_EveryRequestSendsOne == [][C9_StatedStep]_vars

\* C9, amended: with the bot logged in and sending successful, a command
\* request sends exactly one message "TARGET <id> <COMMAND> [args]", <id> the
\* receiver selected when the message is formatted or NONE, unless its form
\* value is missing or empty (/ui/open, /ui/close, /ui/volume) or no receiver
\* is selected as it arrives (/ui/live/start, /ui/live/stop, /ui/panic): then
\* it sends nothing.
C9_AmendedStep ==
    \A q \in Requests :
        ReturnsLoggedIn(q) =>
            [i \in 1..Len(SentBy(sent', q)) |-> SentBy(sent', q)[i].msg]
                = IF Sendable(req'[q]) THEN <<TargetMessage(req'[q])>> ELSE <<>>

\* C9, amended: whenever a handler returns with the bot logged in and no
\* failed send, its request has sent exactly that one message, or nothing when
\* its form value is missing or empty or no receiver was selected as it arrived.
C9_SendableRequestSendsOne == [][C9_AmendedStep]_vars

\* /ui/open has posted "TARGET NONE OPEN_LINK calc", formatted before r1 was
\* selected
C9_Witness ==
    \E q \in Requests :
        /\ req[q].pc = "done" /\ req[q].path = "/ui/open" /\ req[q].send = "ok"
        /\ selected = "r1"
        /\ Len(sent) = 1 /\ sent[1].by = q
        /\ sent[1].msg = <<"TARGET", "NONE", "OPEN_LINK", "calc">>

\* the alias of every receiver that stays registered stays what it was
AliasesUnchanged ==
    \A rid \in DOMAIN receivers' :
        rid \in DOMAIN receivers
        /\ Get(receivers'[rid], "alias", None) = Get(receivers[rid], "alias", None)

\* C10: no command is sent to the command channel, and neither the selection
\* nor an alias is changed, by a request whose sender has not entered the PIN.
C10_PinStep ==
    /\ Len(sent') > Len(sent) => sent'[Len(sent')].pin
    /\ \A tag \in RIDs : UiSelect(tag, FALSE) => selected' = selected
    /\ \A rid \in RIDs, alias \in AliasForms : UiRename(rid, alias, FALSE) => AliasesUnchanged

\* C10: no step sends a command, changes the selection or changes an alias
\* for a requester without the PIN.
C10_PinRequired == [][C10_PinStep]_vars

\* C11: /ui/panic, /ui/live/start and /ui/live/stop answer 400 and send nothing
\* when no receiver is selected as the request arrives, and no message they
\* send is addressed to TARGET NONE, whatever ran while the handler waited.
C11_SelectionRequired ==
    /\ \A q \in Requests :
          req[q].pc = "done" /\ Endpoint(req[q].path).needs_selection
          /\ req[q].at_entry = None =>
              req[q].status = 400 /\ SentBy(sent, q) = <<>>
    /\ \A i \in DOMAIN sent :
          Endpoint(req[sent[i].by].path).needs_selection => sent[i].msg[2] # "NONE"

\* the step is a run of on_message
HandlesMessage == inbox # NoMessage /\ inbox' = NoMessage

\* C12 as stated: the tag stored for a registered receiver never changes in a
\* step that handles a message of the chat channel (only an operator's request
\* on the dashboard changes it).
C12_StatedStep ==
    \A rid \in DOMAIN receivers \cap DOMAIN receivers' :
        receivers'[rid]["tag"] # receivers[rid]["tag"] => ~HandlesMessage

C12_TagChangesOnlyByOperator == [][C12_StatedStep]_vars

\* C12, amended: the tag stored for a registered receiver changes only when
\* on_message handles an ONLINE or PING announcement of that receiver in the
\* command channel, and becomes the announcement's third token; no request
\* on the dashboard changes it.
C12_AmendedStep ==
    \A rid \in DOMAIN receivers \cap DOMAIN receivers' :
        receivers'[rid]["tag"] # receivers[rid]["tag"] =>
            /\ HandlesMessage
            /\ inbox.channel = COMMAND_CHANNEL
            /\ ClaimedAnnouncement(inbox.m)
            /\ inbox.m.tokens[2] = rid
            /\ receivers'[rid]["tag"] = inbox.m.tokens[3]

C12_TagChangesOnlyByAnnouncement == [][C12_AmendedStep]_vars

\* r1 was renamed under tag t1, which the file still shows, and has announced
\* itself again as t2
C12_Witness ==
    /\ resp.kind = "message" /\ resp.announced
    /\ state_file.exists /\ "r1" \in DOMAIN OnDisk(state_file).receivers
    /\ OnDisk(state_file).receivers["r1"]["tag"] = "t1"
    /\ Get(OnDisk(state_file).receivers["r1"], "alias", "") = "al"
    /\ "r1" \in DOMAIN receivers /\ receivers["r1"]["tag"] = "t2"

\* "Logged keys auto-expire after 60 seconds."
KEYLOG_EXPIRY == 60

\* C13: a response of GET /api/logs holds the text of a log message only
\* during the 60 seconds after the message was received.
C13_LogsExpire ==
    resp.kind = "logs" /\ resp.text # <<>> =>
        clock - latest_keylog.received <= KEYLOG_EXPIRY

\* the claim's direct messages to list: no guild, the author no bot, the
\* stripped content non-empty and not starting with "?"
ClaimedDm(msg) ==
    /\ msg.channel = DM_CHANNEL
    /\ ~msg.author.bot
    /\ Strip(msg.text) # <<>>
    /\ Head(Strip(msg.text)) \notin PrefixedWords

\* C14: on_message adds the line of a message to the DM list, and makes its
\* author the latest DM user, if and only if the message is a direct message,
\* its author is no bot and its stripped content is non-empty and does not
\* start with "?" (the line goes to the end of the list, after the lines the
\* list had when it is not full); any other message changes neither; and GET
\* /api/messages shows the list and the latest user's name.
C14_Step ==
    HandlesMessage /\ inbox.channel \in DmChannels =>
        IF ClaimedDm(inbox)
        THEN /\ Len(dm_messages) < MAX_DM_MESSAGES =>
                    /\ Len(dm_messages') = Len(dm_messages) + 1
                    /\ SubSeq(dm_messages', 1, Len(dm_messages)) = dm_messages
             /\ dm_messages' # <<>>
             /\ dm_messages'[Len(dm_messages')] =
                    [ts |-> inbox.created, user |-> inbox.author.name,
                     content |-> Strip(inbox.text), id |-> inbox.id]
             /\ latest_dm_user' = [id |-> inbox.author.id, name |-> inbox.author.name]
        ELSE UNCHANGED <<dm_messages, latest_dm_user>>

C14_DmListHoldsDirectMessages ==
    /\ [][C14_Step]_vars
    /\ [](resp.kind = "messages" =>
            resp.text = dm_messages /\ resp.latest = latest_dm_user.name)

\* /api/messages shows the line of the first message alone, after a second
\* message was handled
C14_Witness ==
    /\ resp.kind = "messages"
    /\ Len(resp.text) = 1 /\ resp.text[1].id = 1 /\ resp.text[1].content = <<"hi">>
    /\ resp.latest = "ann"
    /\ delivered = 2 /\ inbox = NoMessage

\* C15: the DM list never holds more than MAX_DM_MESSAGES lines, its lines
\* are in the order of arrival of their messages, and a line added to a full
\* list drops the oldest line, the first one, and no other.
C15_FullStep ==
    HandlesMessage /\ Len(dm_messages) = MAX_DM_MESSAGES /\ ClaimedDm(inbox) =>
        /\ Len(dm_messages') = MAX_DM_MESSAGES
        /\ SubSeq(dm_messages', 1, MAX_DM_MESSAGES - 1) = Tail(dm_messages)
        /\ dm_messages'[MAX_DM_MESSAGES].id = inbox.id

C15_DmListBounded ==
    /\ [](Len(dm_messages) <= MAX_DM_MESSAGES)
    /\ [](\A i \in 1..(Len(dm_messages) - 1) : dm_messages[i].id < dm_messages[i + 1].id)
    /\ [][C15_FullStep]_vars

\* the list is full and has dropped the line of the first message
C15_Witness ==
    /\ Len(dm_messages) = MAX_DM_MESSAGES
    /\ dm_messages[1].id = 2
    /\ dm_messages[MAX_DM_MESSAGES].id = MAX_DM_MESSAGES + 1

\* the keys line 59 gives an entry of _receivers
EntryKeys == {"alias", "last_seen", "tag", "mode"}

C16_AnnouncedStep ==
    HandlesMessage /\ inbox.channel = COMMAND_CHANNEL /\ ClaimedAnnouncement(inbox.m) =>
        /\ inbox.m.tokens[2] \in DOMAIN receivers'
        /\ DOMAIN receivers'[inbox.m.tokens[2]] = EntryKeys

C17_SavedStep ==
    disk_ok /\ (receivers' # receivers \/ selected' # selected) =>
        /\ state_file'.exists
        /\ OnDisk(state_file') = [receivers |-> receivers', selected |-> selected']

C17_StatePersisted == [][C17_SavedStep]_vars

\* C18: _load_state() called on the file a successful _save_state() has just
\* written yields the registry and the selection that were saved; called
\* when the file is missing or cannot be read, it leaves the registry and the
\* selection in memory as they are.
C18_LoadStep ==
    resp.kind # "loaded" /\ resp'.kind = "loaded" =>
        /\ LastSave(resp).kind = "saved" /\ LastSave(resp).written =>
                /\ receivers' = LastSave(resp).receivers
                /\ selected' = LastSave(resp).selected
        /\ state_file \in {NoFile} \cup UnreadableFiles =>
                UNCHANGED <<receivers, selected>>

C18_SaveLoadRoundTrip == [][C18_LoadStep]_vars

\* the process has saved two receivers and the selection of r2, started
\* again and loaded them
C18_Witness ==
    /\ resp.kind = "loaded" /\ resp.after = "started"
    /\ resp.memory.receivers = EmptyDict
    /\ DOMAIN receivers = {"r1", "r2"}
    /\ DOMAIN receivers["r1"] # DOMAIN receivers["r2"]
    /\ selected = "r2"

\* the file name ends in one of the suffixes exts
EndsIn(filename, exts) == filename # <<>> /\ filename[Len(filename)] \in exts

\* the claim's screenshots: the file name ends in .png, .jpg or .jpeg
ClaimedImage(filename) == EndsIn(filename, ImageExts)

\* the file name ends in .png, .jpg or .jpeg in any letter case
ClaimedImageAnyCase(filename) == EndsIn(LowerName(filename), ImageExts)

\* the index of the attachment the handler of the message msg awaits after
\* the step, one past the last attachment when the handler has ended
AwaitedNext(msg) ==
    IF \E k \in reading' : k.msg = msg
    THEN (CHOOSE k \in reading' : k.msg = msg).idx
    ELSE Len(msg.atts) + 1

\* a step of on_message on a message of the target channel, for the
\* attachments Claimed says are screenshots: the attachment whose read has
\* returned adds one entry, its own, when it is a screenshot and was read and
\* written, and none otherwise; the attachments the handler passes without
\* reading are no screenshots; no other step changes the log
ShotStep(Claimed(_)) ==
    /\ IF reading \ reading' # {}
       THEN LET h == CHOOSE k \in reading \ reading' : TRUE
                atts == h.msg.atts
            IN /\ IF Claimed(atts[h.idx]) /\ resp'.stored
                  THEN /\ Len(screenshot_log') = Len(screenshot_log) + 1
                       /\ SubSeq(screenshot_log', 1, Len(screenshot_log)) = screenshot_log
                       /\ screenshot_log'[Len(screenshot_log')].message_id = Str(h.msg.id)
                       /\ screenshot_log'[Len(screenshot_log')].id[3] = Str(h.idx - 1)
                  ELSE screenshot_log' = screenshot_log
               /\ \A i \in (h.idx + 1)..(AwaitedNext(h.msg) - 1) : ~Claimed(atts[i])
       ELSE screenshot_log' = screenshot_log
    /\ HandlesMessage /\ inbox.channel = TARGET_CHANNEL =>
            \A i \in 1..(AwaitedNext(inbox) - 1) : ~Claimed(inbox.atts[i])

\* while no on_message handler is in progress the latest screenshot is the
\* last entry of a log that has one
LatestIsLast ==
    reading = {} /\ screenshot_log # <<>> =>
        LET last == screenshot_log[Len(screenshot_log)]
        IN latest_screenshot = [url |-> last.url, message_id |-> last.message_id, ts |-> last.ts]

\* C19 as stated: an attachment of a message of the target channel adds
\* exactly one entry to the screenshot log when its file name ends in .png,
\* .jpg or .jpeg and it is read and written successfully, and no entry
\* otherwise; and while no on_message handler is in progress the latest
\* screenshot is the last entry of a non-empty log.
C19_ScreenshotsLogged == [][ShotStep(ClaimedImage)]_vars /\ []LatestIsLast

\* C19, amended: the same for the attachments whose file name ends in .png,
\* .jpg or .jpeg in any letter case (SHOT.PNG is logged too).
C19_ScreenshotsLoggedAnyCase == [][ShotStep(ClaimedImageAnyCase)]_vars /\ []LatestIsLast

\* after the entry of an earlier run the log holds the second attachment of a
\* message, SHOT.PNG, whose first attachment added nothing, and no handler is
\* in progress
C19_Witness ==
    /\ reading = {} /\ inbox = NoMessage
    /\ Len(screenshot_log) = 2
    /\ screenshot_log[1] = OldEntry
    /\ screenshot_log[2].id[3] = Str(1)
    /\ latest_screenshot.url = screenshot_log[2].url
    /\ delivered = 1

\* the step is a run of ui_rename, answered with resp'
RenamesReceiver ==
    /\ resp'.kind = "rename"
    /\ UNCHANGED <<inbox, clock, ticks>>

\* what the claim says the rename of rid with the form value form makes of
\* the registry recs: the entry of rid gets the stripped value as its alias,
\* or loses its alias when the value is blank, and nothing else changes;
\* nothing changes when rid is not registered or the form has no value
ClaimedRename(recs, rid, form) ==
    IF rid \in DOMAIN recs /\ form.given
    THEN [x \in DOMAIN recs |->
            IF x # rid THEN recs[x]
            ELSE IF Strip(form.text) # <<>>
            THEN Put(recs[x], "alias", AsStr(Strip(form.text)))
            ELSE Pop(recs[x], "alias")]
    ELSE recs

\* the name the claim says /api/receivers reports for rid: the alias if
\* non-empty, else the tag, else the id
ClaimedName(rid, info) ==
    IF Get(info, "alias", "") # "" THEN info["alias"]
    ELSE IF Get(info, "tag", "") # "" THEN info["tag"]
    ELSE rid

NamesAsClaimed ==
    resp.kind = "receivers" =>
        \A d \in resp.online \cup resp.offline :
            d.id \in DOMAIN receivers /\ d.name = ClaimedName(d.id, receivers[d.id])

\* C20 as stated: POST /ui/rename/{rid} sets the alias of a registered rid to
\* the stripped submitted value, or removes it when the value is blank, and
\* changes nothing else in the registry; it changes nothing at all when rid
\* is not registered; and /api/receivers reports as name the alias if
\* non-empty, else the tag, else the id.
C20_StatedStep ==
    RenamesReceiver =>
        /\ receivers' = ClaimedRename(receivers, resp'.id, resp'.form)
        /\ resp'.id \notin DOMAIN receivers => UNCHANGED <<selected, state_file>>

C20_RenameSetsAlias == [][C20_StatedStep]_vars /\ []NamesAsClaimed

\* the receivers ui_rename finds registered after _prune_receivers()
Unpruned(recs, now) ==
    [rid \in {x \in DOMAIN recs : now - recs[x]["last_seen"] <= PRUNE_SECONDS} |-> recs[rid]]

\* C20, amended: POST /ui/rename/{rid} first removes the receivers last seen
\* more than 30 days ago (and the selection of a removed receiver); among
\* the receivers left it sets the alias of rid to the stripped submitted
\* value, or removes it when the value is blank, and changes nothing else; it
\* changes nothing more when rid is not among them; and /api/receivers
\* reports as name the alias if non-empty, else the tag, else the id.
C20_AmendedStep ==
    RenamesReceiver =>
        LET kept == Unpruned(receivers, clock)
        IN /\ receivers' = ClaimedRename(kept, resp'.id, resp'.form)
           /\ selected' = IF selected = None \/ selected \in DOMAIN kept THEN selected ELSE None
           /\ resp'.id \notin DOMAIN kept /\ DOMAIN kept = DOMAIN receivers =>
                    UNCHANGED state_file

C20_RenameSetsAliasAfterPrune == [][C20_AmendedStep]_vars /\ []NamesAsClaimed

\* r1 was renamed with a padded alias next to r2
C20_Witness ==
    /\ resp.kind = "rename" /\ resp.id = "r1"
    /\ resp.form.given /\ resp.form.text = <<Space, "al", Space>>
    /\ DOMAIN receivers = {"r1", "r2"}
    /\ receivers["r1"]["alias"] = "al"
    /\ receivers["r2"]["alias"] = ""

(***************************************************************************)
(* Properties of the panel while the bot is not ready                      *)
(***************************************************************************)
\* the wait of the handler of q ends in this step, the bot still logging in
WaitEndsUnready(q) ==
    /\ req[q].pc = "wait"
    /\ req'[q] # req[q]
    /\ controller = "starting"

C21_TimeoutStep ==
    \A q \in Requests :
        WaitEndsUnready(q) =>
            /\ req'[q].pc = "done" /\ req'[q].status = 503
            /\ sent' = sent
            /\ receivers' = receivers
            /\ selected' = selected
            /\ state_file' = state_file

\* a request answered 503 has posted nothing and never called ch.send
C21_UnreadySentNothing ==
    \A q \in Requests :
        req[q].pc = "done" /\ req[q].status = 503 =>
            SentBy(sent, q) = <<>> /\ req[q].send = "none"

\* C21: when the bot has not become ready within the 5-second wait, a command
\* endpoint responds 503, sends no message to the command channel and leaves
\* the receiver registry, every mode field included, unchanged.
C21_UnreadyAnswers503 == [](C21_UnreadySentNothing) /\ [][C21_TimeoutStep]_vars

\* /cmd/gif/stop was answered 503 while r1, in gif mode, was selected
C21_Witness ==
    \E q \in Requests :
        /\ req[q].pc = "done" /\ req[q].path = "/cmd/gif/stop" /\ req[q].status = 503
        /\ selected = "r1" /\ req[q].at_entry = "r1"
        /\ "r1" \in DOMAIN receivers
        /\ Get(receivers["r1"], "mode", "") = "gif"
        /\ sent = <<>>

(***************************************************************************)
(* Properties of the selection                                             *)
(***************************************************************************)
\* on_message handles an announcement of the command channel in this step
HandlesAnnouncement ==
    /\ HandlesMessage
    /\ inbox.channel = COMMAND_CHANNEL
    /\ ClaimedAnnouncement(inbox.m)

C22_StatedStep ==
    HandlesAnnouncement =>
        IF selected = None
        THEN selected' = inbox.m.tokens[2] /\ ~resp'.raised
        ELSE selected' = selected

\* C22: when on_message handles an ONLINE or PING announcement of three
\* tokens or more while no receiver is selected, the announcing receiver
\* becomes the selected receiver and the handler completes without raising;
\* when a receiver is already selected the selection is unchanged.
C22_AnnouncerSelected == [][C22_StatedStep]_vars

\* the selection is None or an id of the registry
SelectedIsRegistered == selected = None \/ selected \in DOMAIN receivers

\* a handler that formats its command in this step addresses it to NONE or
\* to an id of the registry
FormatsForRegistered ==
    \A q \in Requests :
        req'[q].msg # req[q].msg /\ req'[q].msg # <<>> =>
            /\ req'[q].msg[1] = "TARGET"
            /\ req'[q].msg[2] = "NONE" \/ req'[q].msg[2] \in DOMAIN receivers

\* C23: starting from an empty registry with no selection, in every reachable
\* state the selected receiver is None or a key of the registry, whatever the
\* interleaving of announcements, /ui/select, /ui/rename and prunes; hence
\* the id a command is addressed to when _cmd_with_selection formats it is
\* NONE or a registered id.
C23_SelectionRegistered == [](SelectedIsRegistered) /\ [][FormatsForRegistered]_vars

\* r1 was selected and sent a command, then was pruned next to r2, and
\* nothing is selected any more
C23_Witness ==
    /\ selected = None
    /\ DOMAIN receivers = {"r2"}
    /\ sent # <<>> /\ sent[1].msg[2] = "r1"

(***************************************************************************)
(* Properties of _prune_receivers                                          *)
(***************************************************************************)
\* the receivers last seen more than PRUNE_SECONDS (30 days) before now
SilentFor30Days(recs, now) ==
    {rid \in DOMAIN recs : now - recs[rid]["last_seen"] > PRUNE_SECONDS}

C24_PruneStep ==
    resp'.kind = "pruned" =>
        LET silent == SilentFor30Days(receivers, clock)
        IN /\ DOMAIN receivers' = DOMAIN receivers \ silent
           /\ \A rid \in DOMAIN receivers' : receivers'[rid] = receivers[rid]
           /\ selected' = IF selected \in silent THEN None ELSE selected
           /\ resp'.removed <=> silent # {}
           /\ IF silent # {} /\ disk_ok
              THEN /\ state_file'.exists
                   /\ OnDisk(state_file') =
                         [receivers |-> receivers', selected |-> selected']
              ELSE state_file' = state_file

\* C24: _prune_receivers(now) removes exactly the receivers with
\* now - last_seen > PRUNE_SECONDS (30 days) and leaves every other entry
\* unchanged, sets the selection to None if and only if the selected
\* receiver was removed, and returns True, having called _save_state (the
\* file holds the pruned state when the write succeeds), if and only if at
\* least one receiver was removed.
C24_PruneExact == [][C24_PruneStep]_vars

\* the selected r1 was removed next to r2, last seen exactly 30 days before,
\* and the file holds what is left
C24_Witness ==
    /\ resp.kind = "pruned" /\ resp.removed
    /\ resp.memory.selected = "r1"
    /\ DOMAIN resp.memory.receivers = {"r1", "r2"}
    /\ DOMAIN receivers = {"r2"}
    /\ clock - receivers["r2"]["last_seen"] = PRUNE_SECONDS
    /\ selected = None
    /\ state_file.exists /\ DOMAIN OnDisk(state_file).receivers = {"r2"}

(***************************************************************************)
(* Properties of the mode a command leaves                                 *)
(***************************************************************************)
\* the receivers whose mode field this step changes
ModeChanged ==
    {rid \in DOMAIN receivers \cap DOMAIN receivers' :
        Get(receivers'[rid], "mode", Absent) # Get(receivers[rid], "mode", Absent)}

C25_ModeStep ==
    \A q \in Requests :
        req[q].pc # "done" /\ req'[q].pc = "done" /\ req'[q].send = "ok" =>
            \A rid \in ModeChanged :
                /\ SentBy(sent', q) # <<>>
                /\ SentBy(sent', q)[1].msg[1] = "TARGET"
                /\ SentBy(sent', q)[1].msg[2] = rid

\* C25: for /cmd/gif/start, /cmd/gif/stop, /ui/surprise, /ui/live/start and
\* /ui/live/stop, the receiver whose mode field a request changes is the
\* receiver id in the TARGET field of the command that request sent, also
\* when /ui/select or a prune runs while the handler is suspended in
\* _send_cmd.
C25_ModeFollowsTarget == [][C25_ModeStep]_vars

(***************************************************************************)
(* Properties of the hubs' sets over time                                  *)
(***************************************************************************)
\* socket c is in no viewer set
NotViewing(c) == \A rid \in DOMAIN live_hubs : c \notin live_hubs[rid].viewers

\* every socket of a viewer set belongs to a connection without role=sender
NoSenderViews ==
    \A rid \in DOMAIN live_hubs :
        \A c \in live_hubs[rid].viewers : lconn[c].role # "sender"

\* no socket whose connection has ended is in a set of its hub
EndedSocketsRemoved ==
    /\ \A c \in LiveConns : lconn[c].closed => NotViewing(c)
    /\ \A c \in AudioConns : aconn[c].closed => c \notin hub.clients

\* C26: when an /audio client or a /live viewer connection ends, its socket
\* is eventually removed from its hub's set, provided every broadcast in
\* progress eventually releases the lock; a connection with role=sender is
\* never a member of a viewer set.  A connection that has ended stays ended,
\* so each ended socket is eventually removed for good exactly when from
\* some point on no ended socket is in a set.
C26_EndedSocketsRemoved == <>[](EndedSocketsRemoved) /\ [](NoSenderViews)

\* a viewer that a broadcast sent a frame to has closed its socket and has
\* been removed from the viewer set
C26_Witness ==
    \E c \in LiveConns :
        /\ lconn[c].role = "viewer" /\ lconn[c].closed /\ lconn[c].pc = "done"
        /\ NotViewing(c)
        /\ \E b \in llog : c \in b.entry /\ c \notin b.raised

(***************************************************************************)
(* Properties of the order of the frames                                   *)
(***************************************************************************)
\* the connections that have attached to /live/{rid} with role=sender
SendersOf(rid) == {c \in LiveConns : lconn[c].role = "sender" /\ lconn[c].rid = rid}

\* no frame comes after one that was submitted later
InSubmissionOrder(frames) ==
    \A i, j \in 1..Len(frames) : i < j => frames[i].seq <= frames[j].seq

\* C27: with a single sender on /live/{rid}, the frames written to a viewer's
\* socket, the latest frame replayed on join included, are in the order the
\* sender submitted them: no viewer receives an older frame after a newer one.
C27_FramesInOrder ==
    \A c \in LiveConns :
        lconn[c].role = "viewer" /\ Cardinality(SendersOf(lconn[c].rid)) <= 1 =>
            InSubmissionOrder(lrecv[c])

\* a viewer was replayed the first frame on join and then sent the second by
\* the broadcast of the only sender
C27_Witness ==
    \E c \in LiveConns :
        /\ lconn[c].role = "viewer"
        /\ Cardinality(SendersOf(lconn[c].rid)) = 1
        /\ Len(lrecv[c]) >= 2
        /\ lrecv[c][1].seq = ljoin[c].submitted
        /\ lrecv[c][1].seq <= ljoin[c].entered
        /\ lrecv[c][2].seq > lrecv[c][1].seq

============================================================================
